---- MODULE Spec2Model ----
(***************************************************************************)
(* A model of chroot/run_linux.go: the bootstrap main sequence             *)
(* (runUsingChrootExecMain) with its signal relay, the capability          *)
(* computation (setCapabilities), and setupChrootBindMounts: its cleanup   *)
(* handle (undoBinds), its loop over the caller's mounts, its read-only    *)
(* paths and its masked paths.                                             *)
(*                                                                         *)
(* The specifications share the variables:                                 *)
(*   Spec         the bootstrap main sequence and the relay goroutine      *)
(*   SpecCaps     setCapabilities on bounded inputs                        *)
(*   SpecUndo     repeated invocations of the cleanup handle               *)
(*   SpecFlags    the derivation of the mount flags from option strings    *)
(*   SpecMounts   the loop over spec.Mounts                                *)
(*   SpecReadonly the loop over spec.Linux.ReadonlyPaths, run twice        *)
(*   SpecMask     the loop over spec.Linux.MaskedPaths                     *)
(*   SpecRlimits  setRlimits on bounded inputs                             *)
(*   SpecSys      the loop over the host's mounts at and under /sys        *)
(* A specification leaves the variables of the others at their initial     *)
(* values.                                                                 *)
(***************************************************************************)
EXTENDS Integers, Sequences, FiniteSets, TLC

VARIABLES
    \* ---- runUsingChrootExecMain ----
    pc,          \* the step of the main sequence about to run, "exited" or "returned"
    options,     \* the decoded runUsingChrootExecSubprocOptions (NoOptions before decoding)
    exitStatus,  \* the process's exit status, -1 while it runs
    failed,      \* the fatal-class step whose operation failed, "none" if none did
    failedAt,    \* Len(done) at the moment that step failed
    done,        \* the operations performed successfully so far, in order
    rootId,      \* environment: (dev, ino) of the directory now at Spec.Root.Path
    oldst,       \* unix.Stat(Root.Path) taken before chdir
    newst,       \* unix.Stat("/") taken after chroot
    suppGroups,  \* the process's supplementary groups (InheritedGroups until changed)
    setgroups,   \* what was read from /proc/self/setgroups, "" before and on an error
    ids,         \* the process's [uid, gid] (real = effective = saved)
    procCaps,    \* the capability sets last applied by caps.Apply (InheritedCaps before)
    cmdProcess,  \* cmd.Process: "nil" or "set"
    child,       \* the child: "none", "running", "exited", "signaled", "reaped"
    childStatus, \* the child's exit status once it has exited
    waitErr,     \* what cmd.Wait() returned
    \* ---- the relay goroutine and the interrupted channel ----
    relayPc,     \* "none", "recv", "signal", "done", "panicked"
    interrupted, \* number of signals buffered in the channel
    chanClosed,  \* close(interrupted) has run
    notifying,   \* signal.Notify is in force
    arrived,     \* signals delivered to the process while notifying
    forwarded,   \* SIGKILLs the relay sent to a started child
    \* ---- setCapabilities on its own (SpecCaps) ----
    cpc,         \* "call", "loaded", "applied", "error"
    cIn,         \* its inputs: [capabilities, keepCaps, currentCaps]
    cErr,        \* the error it returned
    \* ---- the cleanup handle (SpecUndo) ----
    err,         \* setupChrootBindMounts' named result err, captured by undoBinds
    mounted,     \* environment: something is mounted at spec.Root.Path
    hpc,         \* "idle" between invocations, "loop" inside one
    err2,        \* the invocation's err2
    retries,     \* the invocation's retries
    attempts,    \* unix.Unmount calls made by the current or last invocation
    busyFails,   \* of those, the ones that returned EBUSY or EAGAIN
    calls,       \* invocations of the handle that have returned
    errAtCall,   \* err when the current or last invocation began
    setupErr,    \* err as setupChrootBindMounts returned it
    firstUnmountErr, \* the first err2 an invocation ended with, "nil" if none yet
    firstRet,    \* what the first invocation returned
    lastRet,     \* what the last invocation returned
    \* ---- the derivation of the mount flags on its own (SpecFlags) ----
    fpc,         \* "call", "done"
    fIn,         \* m.Options
    fOut,        \* [request, expected]: requestFlags and expectedFlags after the loop
    \* ---- the loop over spec.Mounts (SpecMounts) ----
    mnts,        \* spec.Mounts
    mi,          \* the index of the entry the loop takes next
    mpc,         \* "loop", "end" (the loop ran out), "returned" (a return inside it)
    mLast,       \* what the last iteration did, NoIteration before the first
    \* ---- the loop over spec.Linux.ReadonlyPaths (SpecReadonly) ----
    roPaths,     \* spec.Linux.ReadonlyPaths
    roFs,        \* environment: for each path, whether it exists and is read-only
    ri,          \* the index of the path the loop takes next
    rpass,       \* 1 in the first run of the loop, 2 in the second
    rpc,         \* "loop", "end" (the loop ran out), "returned" (a return inside it)
    rErr,        \* the error returned from inside the loop
    rCalls,      \* unix.Mount calls made in this run of the loop
    rLast,       \* how the last iteration ended
    \* ---- the loop over spec.Linux.MaskedPaths (SpecMask) ----
    maskedPaths, \* spec.Linux.MaskedPaths, each with what is found at the path
    idMappings,  \* [uid, gid]: spec.Linux.UIDMappings and spec.Linux.GIDMappings
    ki,          \* the index of the path the loop takes next
    kpc,         \* "mkdir", "loop", "end" (return undoBinds, nil), "returned"
    kLast,       \* what the last iteration did, NoMasking before the first
    \* ---- setRlimits on its own (SpecRlimits) ----
    rlIn,        \* spec.Process.Rlimits: entries [type, soft, hard]
    rlFlags,     \* [onlyLower, onlyRaise]
    rlCur0,      \* environment: the process's limits when setRlimits is called
    rlCur,       \* environment: the process's limits now, [cur, max] per resource
    rlPc,        \* "call", "loop", "done" (return nil), "error"
    rlErr,       \* the error setRlimits returned
    rlLimits,    \* limits: what parseRlimits returned
    rlTodo,      \* the resources the range over limits has still to visit
    rlCalls,     \* the unix.Setrlimit calls made: [resource, soft, hard]
    \* ---- the loop over the host's mounts under /sys (SpecSys) ----
    sysMnts,     \* what mount.GetMounts() returned: the mountpoints
    si,          \* the index of the mount the loop takes next
    spc,         \* "loop", "end" (the loop ran out), "returned" (a return inside it)
    sRet,        \* what a return inside the loop handed back: [handle, err]
    sLast        \* what the last iteration did, NoSysIteration before the first

mainVars == <<pc, options, exitStatus, failed, failedAt, done, rootId, oldst, newst,
              suppGroups, setgroups, ids, procCaps, cmdProcess, child, childStatus, waitErr>>
relayVars == <<relayPc, interrupted, chanClosed, notifying, arrived, forwarded>>
capVars == <<cpc, cIn, cErr>>
undoVars == <<err, mounted, hpc, err2, retries, attempts, busyFails, calls,
              errAtCall, setupErr, firstUnmountErr, firstRet, lastRet>>
flagVars == <<fpc, fIn, fOut>>
\* the variables of the parts of setupChrootBindMounts other than its handle
mountVars == <<mnts, mi, mpc, mLast>>
roVars == <<roPaths, roFs, ri, rpass, rpc, rErr, rCalls, rLast>>
maskVars == <<maskedPaths, idMappings, ki, kpc, kLast>>
rlVars == <<rlIn, rlFlags, rlCur0, rlCur, rlPc, rlErr, rlLimits, rlTodo, rlCalls>>
sysVars == <<sysMnts, si, spc, sRet, sLast>>
setupVars == <<flagVars, mountVars, roVars, maskVars, rlVars, sysVars>>
vars == <<mainVars, relayVars, capVars, undoVars, setupVars>>

(***************************************************************************)
(* Bounds of the model.                                                    *)
(***************************************************************************)
\* capability names listed in the four lists of Spec.Process.Capabilities, in total
MaxCapEntries == 1
\* (set, capability) pairs the current process holds
MaxHeld == 1
\* signals delivered to the bootstrap while signal.Notify is in force
MaxSignals == 2
\* invocations of the cleanup handle
MaxCalls == 3
\* option strings of one mount entry
MaxOptions == 3
\* entries of spec.Mounts
MaxMounts == 1
\* entries of spec.Linux.ReadonlyPaths
MaxRoPaths == 2
\* entries of spec.Linux.MaskedPaths
MaxMasked == 1
\* entries of spec.Process.Rlimits
MaxRlimits == 2
\* host mounts returned by mount.GetMounts()
MaxSysMounts == 2

(***************************************************************************)
(* Program constants.                                                      *)
(***************************************************************************)
\* make(chan os.Signal, 100)
QueueCap == 100
\* retries < 50
MaxRetries == 50

Range(s) == {s[i] : i \in 1..Len(s)}

RECURSIVE SeqsUpTo(_, _)
SeqsUpTo(S, n) ==
    IF n = 0 THEN {<<>>}
    ELSE LET shorter == SeqsUpTo(S, n - 1)
         IN  shorter \cup {Append(s, x) : s \in {t \in shorter : Len(t) = n - 1}, x \in S}

(***************************************************************************)
(* setCapabilities.                                                        *)
(***************************************************************************)
CapTypes == {"BOUNDING", "EFFECTIVE", "INHERITABLE", "PERMITTED", "AMBIENT"}

\* capability.List(), cut to two capabilities
knownCaps == {"setuid", "net_bind_service"}

noCap == "noCap"

\* the names a specification or a keep list may hold: two spellings of one
\* capability, a second capability, and a name the kernel does not know
CapNames == {"CAP_SETUID", "cap_setuid", "CAP_NET_BIND_SERVICE", "CAP_BOGUS"}

\* "CAP_" + c.String()
CapString(c) ==
    CASE c = "setuid" -> "CAP_setuid"
      [] c = "net_bind_service" -> "CAP_net_bind_service"

\* the case folding of strings.EqualFold, on the strings of the model
Fold(s) ==
    CASE s \in {"CAP_SETUID", "cap_setuid", "CAP_setuid"} -> "cap_setuid"
      [] s \in {"CAP_NET_BIND_SERVICE", "CAP_net_bind_service"} -> "cap_net_bind_service"
      [] OTHER -> s

EqualFold(s, t) == Fold(s) = Fold(t)

\* the inner loop over knownCaps: the capability capToSet names, or noCap
LookupCap(capToSet) ==
    IF \E c \in knownCaps : EqualFold(CapString(c), capToSet)
    THEN CHOOSE c \in knownCaps : EqualFold(CapString(c), capToSet)
    ELSE noCap

capMap(capabilities) ==
    [BOUNDING    |-> capabilities.Bounding,
     EFFECTIVE   |-> capabilities.Effective,
     INHERITABLE |-> <<>>,
     PERMITTED   |-> capabilities.Permitted,
     AMBIENT     |-> capabilities.Ambient]

\* the first inner loop: caps.Set(capType, cap) for every name of capList;
\* [failed, set]: failed when a name maps to no capability
RECURSIVE SetSpecCaps(_, _)
SetSpecCaps(capList, set) ==
    IF capList = <<>> THEN [failed |-> FALSE, set |-> set]
    ELSE LET cap == LookupCap(Head(capList))
         IN  IF cap = noCap THEN [failed |-> TRUE, set |-> set]
             ELSE SetSpecCaps(Tail(capList), set \cup {cap})

\* a keep capability set whatever the current process holds
KeepAlways(cap, held) == TRUE

\* whether a keep capability is set: currentCaps.Get(capType, cap)
KeepIt(cap, held) == cap \in held

\* the second inner loop: a keep capability is set when the current process holds it
RECURSIVE SetKeepCaps(_, _, _)
SetKeepCaps(keepCaps, held, set) ==
    IF keepCaps = <<>> THEN [failed |-> FALSE, set |-> set]
    ELSE LET cap == LookupCap(Head(keepCaps))
         IN  IF cap = noCap THEN [failed |-> TRUE, set |-> set]
             ELSE SetKeepCaps(Tail(keepCaps), held,
                              IF KeepIt(cap, held) THEN set \cup {cap} ELSE set)

\* one iteration of the loop over capMap, on a caps object that NewPid2 left empty
CapsOfType(capType, capabilities, keepCaps, currentCaps) ==
    LET fromSpec == SetSpecCaps(capMap(capabilities)[capType], {})
    IN  IF fromSpec.failed THEN fromSpec
        ELSE SetKeepCaps(keepCaps, currentCaps[capType], fromSpec.set)

\* a loop that passes over the names it cannot map and sets the others
ComputeCapsPartial(capabilities, keepCaps, currentCaps) ==
    LET per == [t \in CapTypes |-> CapsOfType(t, capabilities, keepCaps, currentCaps)]
    IN  [err |-> "nil", caps |-> [t \in CapTypes |-> per[t].set]]

\* the sets handed to caps.Apply, or the mapping error: [err, caps]
ComputeCaps(capabilities, keepCaps, currentCaps) ==
    LET per == [t \in CapTypes |-> CapsOfType(t, capabilities, keepCaps, currentCaps)]
    IN  IF \E t \in CapTypes : per[t].failed
        THEN [err |-> "mapping", caps |-> [t \in CapTypes |-> {}]]
        ELSE [err |-> "nil", caps |-> [t \in CapTypes |-> per[t].set]]

\* ---- bounded inputs ----
SpecCapTypes == {"BOUNDING", "EFFECTIVE", "PERMITTED", "AMBIENT"}

\* the names of one list, in order, out of a sequence of (type, name) entries
RECURSIVE ListOf(_, _)
ListOf(entries, capType) ==
    IF entries = <<>> THEN <<>>
    ELSE IF Head(entries)[1] = capType
         THEN <<Head(entries)[2]>> \o ListOf(Tail(entries), capType)
         ELSE ListOf(Tail(entries), capType)

\* every Spec.Process.Capabilities whose four lists hold at most n names in total
CapabilitiesUpTo(n) ==
    {[Bounding  |-> ListOf(e, "BOUNDING"),
      Effective |-> ListOf(e, "EFFECTIVE"),
      Permitted |-> ListOf(e, "PERMITTED"),
      Ambient   |-> ListOf(e, "AMBIENT")] : e \in SeqsUpTo(SpecCapTypes \X CapNames, n)}

\* every capability state of the current process holding at most n (set, capability) pairs
CurrentCapsUpTo(n) ==
    {[t \in CapTypes |-> {c \in knownCaps : <<t, c>> \in h}] :
        h \in {x \in SUBSET (CapTypes \X knownCaps) : Cardinality(x) <= n}}

\* keep lists: none, or one name
KeepLists == {<<>>} \cup {<<n>> : n \in CapNames}

(***************************************************************************)
(* runUsingChrootExecMain: the main sequence.                              *)
(***************************************************************************)
\* a main sequence that applies the MAC profile and label after the groups and GID
MainSequenceMacLate ==
    <<"decode", "validate", "hostname",
      "stat_root", "chdir_root", "chroot", "stat_new", "compare",
      "rlimits", "chdir_slash", "chdir_cwd",
      "groups", "setresgid", "apparmor", "selinux", "seccomp", "capabilities", "setresuid",
      "start", "go_relay", "notify", "wait", "stop", "close", "translate">>

\* a main sequence that changes the UID before it applies the capabilities
MainSequenceUidFirst ==
    <<"decode", "validate", "hostname",
      "stat_root", "chdir_root", "chroot", "stat_new", "compare",
      "apparmor", "selinux", "rlimits", "chdir_slash", "chdir_cwd",
      "groups", "setresgid", "seccomp", "setresuid", "capabilities",
      "start", "go_relay", "notify", "wait", "stop", "close", "translate">>

\* the order in which the function body runs its steps
MainSequence ==
    <<"decode", "validate", "hostname",
      "stat_root", "chdir_root", "chroot", "stat_new", "compare",
      "apparmor", "selinux", "rlimits", "chdir_slash", "chdir_cwd",
      "groups", "setresgid", "seccomp", "capabilities", "setresuid",
      "start", "go_relay", "notify", "wait", "stop", "close", "translate">>

IndexOf(step) == CHOOSE i \in 1..Len(MainSequence) : MainSequence[i] = step

NextStep(step) == MainSequence[IndexOf(step) + 1]

Alive == pc \notin {"exited", "returned"}

\* fmt.Fprintf(os.Stderr, ...); os.Exit(1)
Fatal(step) ==
    /\ pc' = "exited"
    /\ exitStatus' = 1
    /\ failed' = step
    /\ failedAt' = Len(done)
    /\ UNCHANGED done

\* the step's operation succeeded
Proceed(step, op) ==
    /\ pc' = NextStep(step)
    /\ done' = Append(done, op)
    /\ UNCHANGED <<exitStatus, failed, failedAt>>

\* the step made no call
Skip(step) ==
    /\ pc' = NextStep(step)
    /\ UNCHANGED <<exitStatus, failed, failedAt, done>>

NoCapabilities == [Bounding |-> <<>>, Effective |-> <<>>, Permitted |-> <<>>, Ambient |-> <<>>]

NoOptions ==
    [specOk |-> FALSE, hostname |-> "", apparmorProfile |-> "", uid |-> 0, gid |-> 0,
     additionalGids |-> <<>>, capabilities |-> NoCapabilities]

\* the capability lists the main sequence is run with: none, one bounding capability,
\* and a name the kernel does not know
MainCapabilities ==
    {NoCapabilities,
     [NoCapabilities EXCEPT !.Bounding = <<"CAP_NET_BIND_SERVICE">>],
     [NoCapabilities EXCEPT !.Permitted = <<"CAP_BOGUS">>]}

\* what the configuration pipe may carry
OptionsSet ==
    {NoOptions} \cup
    [specOk : {TRUE}, hostname : {"", "box"}, apparmorProfile : {"", "confined"},
     uid : {0, 1000}, gid : {1000}, additionalGids : {<<>>, <<10>>},
     capabilities : MainCapabilities]

FileIds == {[dev |-> 1, ino |-> 1], [dev |-> 1, ino |-> 2], [dev |-> 2, ino |-> 1]}

NoStat == [dev |-> 0, ino |-> 0]

\* a comparison that forgets the device
SameInode(a, b) == a.ino = b.ino

\* oldst.Dev != newst.Dev || oldst.Ino != newst.Ino, negated
SameFile(a, b) == a.dev = b.dev /\ a.ino = b.ino

NoWaitErr == [kind |-> "nil", exited |-> FALSE, signaled |-> FALSE, status |-> 0]

\* what exec.Cmd.Wait returns for a child in state st with exit status s
WaitResult(st, s) ==
    CASE st = "exited" /\ s = 0 -> NoWaitErr
      [] st = "exited" /\ s # 0 ->
            [kind |-> "ExitError", exited |-> TRUE, signaled |-> FALSE, status |-> s]
      [] st = "signaled" ->
            [kind |-> "ExitError", exited |-> FALSE, signaled |-> TRUE, status |-> 0]

\* a wait that failed otherwise: the command was never started, or wait4 failed
WaitFailure == [kind |-> "other", exited |-> FALSE, signaled |-> FALSE, status |-> 0]

\* the status the exit translation passes to os.Exit for a non-nil Wait error
ExitCodeFor(e) ==
    IF e.kind = "ExitError" /\ e.exited THEN e.status ELSE 1

MainUnchanged(except) ==
    /\ UNCHANGED relayVars
    /\ UNCHANGED capVars
    /\ UNCHANGED undoVars
    /\ UNCHANGED setupVars
    /\ IF "options" \in except THEN TRUE ELSE UNCHANGED options
    /\ IF "stat" \in except THEN TRUE ELSE UNCHANGED <<oldst, newst>>
    /\ IF "ident" \in except THEN TRUE ELSE UNCHANGED <<suppGroups, setgroups, ids, procCaps>>
    /\ IF "child" \in except THEN TRUE ELSE UNCHANGED <<cmdProcess, child, childStatus, waitErr>>
    /\ UNCHANGED rootId

\* confPipe and json.NewDecoder(confPipe).Decode(&options)
Decode ==
    /\ pc = "decode"
    /\ \/ /\ Fatal("decode")
          /\ UNCHANGED options
       \/ \E o \in OptionsSet :
            /\ options' = o
            /\ Proceed("decode", "decode")
    /\ MainUnchanged({"options"})

\* options.Spec == nil || options.Spec.Process == nil
Validate ==
    /\ pc = "validate"
    /\ IF options.specOk THEN Proceed("validate", "validate") ELSE Fatal("validate")
    /\ MainUnchanged({})

\* unix.Sethostname: a failure is logged at debug level and the sequence goes on
Hostname ==
    /\ pc = "hostname"
    /\ IF options.hostname # ""
       THEN \/ Proceed("hostname", "sethostname")
            \/ Skip("hostname")
       ELSE Skip("hostname")
    /\ MainUnchanged({})

StatRoot ==
    /\ pc = "stat_root"
    /\ \/ /\ Fatal("stat_root")
          /\ UNCHANGED <<oldst, newst>>
       \/ /\ oldst' = rootId
          /\ UNCHANGED newst
          /\ Proceed("stat_root", "stat_root")
    /\ MainUnchanged({"stat"})

ChdirRoot ==
    /\ pc = "chdir_root"
    /\ (Fatal("chdir_root") \/ Proceed("chdir_root", "chdir_root"))
    /\ MainUnchanged({})

Chroot ==
    /\ pc = "chroot"
    /\ (Fatal("chroot") \/ Proceed("chroot", "chroot"))
    /\ MainUnchanged({})

\* unix.Stat("/", &newst): "/" is the directory the process chrooted into
StatNew ==
    /\ pc = "stat_new"
    /\ \/ /\ Fatal("stat_new")
          /\ UNCHANGED <<oldst, newst>>
       \/ /\ newst' = rootId
          /\ UNCHANGED oldst
          /\ Proceed("stat_new", "stat_new")
    /\ MainUnchanged({"stat"})

Compare ==
    /\ pc = "compare"
    /\ IF SameFile(oldst, newst) THEN Proceed("compare", "compare") ELSE Fatal("compare")
    /\ MainUnchanged({})

\* environment: the directory at Root.Path is replaced between the stat and the chroot
ReplaceRoot ==
    /\ pc \in {"chdir_root", "chroot"}
    /\ \E id \in FileIds \ {rootId} : rootId' = id
    /\ UNCHANGED <<pc, options, exitStatus, failed, failedAt, done, oldst, newst,
                   suppGroups, setgroups, ids, procCaps, cmdProcess, child, childStatus, waitErr>>
    /\ UNCHANGED <<relayVars, capVars, undoVars, setupVars>>

\* setApparmorProfile
Apparmor ==
    /\ pc = "apparmor"
    /\ \E enabled \in BOOLEAN :
         IF ~enabled \/ options.apparmorProfile = ""
         THEN Skip("apparmor")
         ELSE Fatal("apparmor") \/ Proceed("apparmor", "apparmor")
    /\ MainUnchanged({})

\* setSelinuxLabel
Selinux ==
    /\ pc = "selinux"
    /\ (Fatal("selinux") \/ Proceed("selinux", "selinux"))
    /\ MainUnchanged({})

\* setRlimits(options.Spec, false, false)
Rlimits ==
    /\ pc = "rlimits"
    /\ (Fatal("rlimits") \/ Proceed("rlimits", "rlimits"))
    /\ MainUnchanged({})

ChdirSlash ==
    /\ pc = "chdir_slash"
    /\ (Fatal("chdir_slash") \/ Proceed("chdir_slash", "chdir_slash"))
    /\ MainUnchanged({})

ChdirCwd ==
    /\ pc = "chdir_cwd"
    /\ (Fatal("chdir_cwd") \/ Proceed("chdir_cwd", "chdir_cwd"))
    /\ MainUnchanged({})

\* what ioutil.ReadFile("/proc/self/setgroups") may hand back: the kernel's line, the
\* word without its newline, and nothing when the file cannot be read
SetgroupsContents == {"allow\n", "deny\n", "deny", ""}

\* strings.Trim(s, "\n"), on the contents of the model
TrimNewlines(s) ==
    CASE s = "allow\n" -> "allow"
      [] s = "deny\n" -> "deny"
      [] OTHER -> s

\* a comparison of the untrimmed content
DeniedUntrimmed(content) == content = "deny"

\* strings.Trim(string(setgroups), "\n") != "deny", negated
Denied(content) == TrimNewlines(content) = "deny"

\* the supplementary groups: set, cleared, or left when /proc/self/setgroups says deny
Groups ==
    /\ pc = "groups"
    /\ IF Len(options.additionalGids) > 0
       THEN /\ \/ /\ Fatal("groups")
                  /\ UNCHANGED suppGroups
               \/ /\ suppGroups' = options.additionalGids
                  /\ Proceed("groups", "setgroups")
            /\ UNCHANGED setgroups
       ELSE \E content \in SetgroupsContents :
              /\ setgroups' = content
              /\ IF ~Denied(content)
                 THEN \/ /\ Fatal("groups")
                         /\ UNCHANGED suppGroups
                      \/ /\ suppGroups' = <<>>
                         /\ Proceed("groups", "setgroups")
                 ELSE /\ Skip("groups")
                      /\ UNCHANGED suppGroups
    /\ UNCHANGED <<ids, procCaps>>
    /\ MainUnchanged({"ident"})

Setresgid ==
    /\ pc = "setresgid"
    /\ \/ /\ Fatal("setresgid")
          /\ UNCHANGED ids
       \/ /\ ids' = [ids EXCEPT !.gid = options.gid]
          /\ Proceed("setresgid", "setresgid")
    /\ UNCHANGED <<suppGroups, setgroups, procCaps>>
    /\ MainUnchanged({"ident"})

\* setSeccomp
Seccomp ==
    /\ pc = "seccomp"
    /\ (Fatal("seccomp") \/ Proceed("seccomp", "seccomp"))
    /\ MainUnchanged({})

\* keepCaps: CAP_SETUID when the target UID is not 0
KeepCapsFor(uid) == IF uid # 0 THEN <<"CAP_SETUID">> ELSE <<>>

\* setCapabilities(options.Spec, keepCaps...): Load, the loop over capMap, Apply
Capabilities ==
    /\ pc = "capabilities"
    /\ \/ /\ Fatal("capabilities")
          /\ UNCHANGED procCaps
       \/ \E cur \in CurrentCapsUpTo(MaxHeld) :
            LET r == ComputeCaps(options.capabilities, KeepCapsFor(options.uid), cur)
            IN  IF r.err # "nil"
                THEN /\ Fatal("capabilities")
                     /\ UNCHANGED procCaps
                ELSE /\ procCaps' = r.caps
                     /\ Proceed("capabilities", "capabilities")
    /\ UNCHANGED <<suppGroups, setgroups, ids>>
    /\ MainUnchanged({"ident"})

Setresuid ==
    /\ pc = "setresuid"
    /\ \/ /\ Fatal("setresuid")
          /\ UNCHANGED ids
       \/ /\ ids' = [ids EXCEPT !.uid = options.uid]
          /\ Proceed("setresuid", "setresuid")
    /\ UNCHANGED <<suppGroups, setgroups, procCaps>>
    /\ MainUnchanged({"ident"})

\* cmd.Start(): a failure is printed and the function goes on
Start ==
    /\ pc = "start"
    /\ \/ /\ cmdProcess' = "set"
          /\ child' = "running"
          /\ Proceed("start", "start")
       \/ /\ failed' = "start"
          /\ failedAt' = Len(done)
          /\ pc' = NextStep("start")
          /\ UNCHANGED <<cmdProcess, child, exitStatus, done>>
    /\ UNCHANGED <<childStatus, waitErr>>
    /\ MainUnchanged({"child"})

\* go func() { for range interrupted { cmd.Process.Signal(SIGKILL) } }()
GoRelay ==
    /\ pc = "go_relay"
    /\ relayPc' = "recv"
    /\ Proceed("go_relay", "go_relay")
    /\ UNCHANGED <<interrupted, chanClosed, notifying, arrived, forwarded>>
    /\ UNCHANGED <<options, rootId, oldst, newst, suppGroups, setgroups, ids, procCaps,
                   cmdProcess, child, childStatus, waitErr, capVars, undoVars, setupVars>>

\* signal.Notify(interrupted, SIGHUP, SIGINT, SIGTERM)
Notify ==
    /\ pc = "notify"
    /\ notifying' = TRUE
    /\ Proceed("notify", "notify")
    /\ UNCHANGED <<relayPc, interrupted, chanClosed, arrived, forwarded>>
    /\ UNCHANGED <<options, rootId, oldst, newst, suppGroups, setgroups, ids, procCaps,
                   cmdProcess, child, childStatus, waitErr, capVars, undoVars, setupVars>>

\* err = cmd.Wait(): at once when the command never started, else when the child ended
Wait ==
    /\ pc = "wait"
    /\ IF cmdProcess = "nil"
       THEN /\ waitErr' = WaitFailure
            /\ UNCHANGED child
       ELSE /\ child \in {"exited", "signaled"}
            /\ waitErr' \in {WaitResult(child, childStatus), WaitFailure}
            /\ child' = "reaped"
    /\ Proceed("wait", "wait")
    /\ UNCHANGED <<cmdProcess, childStatus>>
    /\ MainUnchanged({"child"})

\* signal.Stop(interrupted)
Stop ==
    /\ pc = "stop"
    /\ notifying' = FALSE
    /\ Proceed("stop", "stop")
    /\ UNCHANGED <<relayPc, interrupted, chanClosed, arrived, forwarded>>
    /\ UNCHANGED <<options, rootId, oldst, newst, suppGroups, setgroups, ids, procCaps,
                   cmdProcess, child, childStatus, waitErr, capVars, undoVars, setupVars>>

\* close(interrupted)
Close ==
    /\ pc = "close"
    /\ chanClosed' = TRUE
    /\ Proceed("close", "close")
    /\ UNCHANGED <<relayPc, interrupted, notifying, arrived, forwarded>>
    /\ UNCHANGED <<options, rootId, oldst, newst, suppGroups, setgroups, ids, procCaps,
                   cmdProcess, child, childStatus, waitErr, capVars, undoVars, setupVars>>

\* the exit translation: os.Exit with the translated status, or a plain return
\* (which ends the process with status 0) when Wait returned nil
Translate ==
    /\ pc = "translate"
    /\ IF waitErr.kind = "nil"
       THEN /\ pc' = "returned"
            /\ exitStatus' = 0
       ELSE /\ pc' = "exited"
            /\ exitStatus' = ExitCodeFor(waitErr)
    /\ UNCHANGED <<failed, failedAt, done>>
    /\ MainUnchanged({})

\* environment: the child exits by itself with status s
ChildExits(s) ==
    /\ Alive
    /\ child = "running"
    /\ child' = "exited"
    /\ childStatus' = s
    /\ UNCHANGED <<pc, options, exitStatus, failed, failedAt, done, rootId, oldst, newst,
                   suppGroups, setgroups, ids, procCaps, cmdProcess, waitErr>>
    /\ UNCHANGED <<relayVars, capVars, undoVars, setupVars>>

\* environment: the child is killed by a signal nobody relayed
ChildKilled ==
    /\ Alive
    /\ child = "running"
    /\ child' = "signaled"
    /\ UNCHANGED <<pc, options, exitStatus, failed, failedAt, done, rootId, oldst, newst,
                   suppGroups, setgroups, ids, procCaps, cmdProcess, childStatus, waitErr>>
    /\ UNCHANGED <<relayVars, capVars, undoVars, setupVars>>

\* a channel that buffers a single signal
EnqueueUnbuffered(n) == IF n < 1 THEN n + 1 ELSE n

\* the runtime's non-blocking send into the channel: dropped when QueueCap are waiting
Enqueue(n) == IF n < QueueCap THEN n + 1 ELSE n

\* environment: SIGHUP, SIGINT or SIGTERM reaches the bootstrap while Notify is in
\* force; the runtime's send into the channel does not block and drops on a full one
SignalArrives ==
    /\ Alive
    /\ notifying
    /\ arrived < MaxSignals
    /\ arrived' = arrived + 1
    /\ interrupted' = Enqueue(interrupted)
    /\ UNCHANGED <<relayPc, chanClosed, notifying, forwarded>>
    /\ UNCHANGED <<mainVars, capVars, undoVars, setupVars>>

\* the relay receives one signal from the channel
RelayRecv ==
    /\ Alive
    /\ relayPc = "recv"
    /\ interrupted > 0
    /\ interrupted' = interrupted - 1
    /\ relayPc' = "signal"
    /\ UNCHANGED <<chanClosed, notifying, arrived, forwarded>>
    /\ UNCHANGED <<mainVars, capVars, undoVars, setupVars>>

\* the range loop ends on a closed and drained channel
RelayEnd ==
    /\ Alive
    /\ relayPc = "recv"
    /\ interrupted = 0
    /\ chanClosed
    /\ relayPc' = "done"
    /\ UNCHANGED <<interrupted, chanClosed, notifying, arrived, forwarded>>
    /\ UNCHANGED <<mainVars, capVars, undoVars, setupVars>>

\* cmd.Process.Signal(syscall.SIGKILL): on a nil cmd.Process the method dereferences
\* nil, the goroutine panics and the runtime ends the process with status 2
RelaySignal ==
    /\ Alive
    /\ relayPc = "signal"
    /\ IF cmdProcess = "nil"
       THEN /\ relayPc' = "panicked"
            /\ pc' = "exited"
            /\ exitStatus' = 2
            /\ UNCHANGED <<forwarded, child>>
       ELSE /\ relayPc' = "recv"
            /\ forwarded' = forwarded + 1
            /\ child' = IF child = "running" THEN "signaled" ELSE child
            /\ UNCHANGED <<pc, exitStatus>>
    /\ UNCHANGED <<interrupted, chanClosed, notifying, arrived>>
    /\ UNCHANGED <<options, failed, failedAt, done, rootId, oldst, newst, suppGroups, setgroups, ids,
                   procCaps, cmdProcess, childStatus, waitErr, capVars, undoVars, setupVars>>

ChildStatuses == {0, 1, 42}

\* the supplementary groups and capability sets the process started with, which the
\* model does not look into
InheritedGroups == <<-1>>

InheritedCaps == [t \in CapTypes |-> {"inherited"}]

InitCapVars ==
    /\ cpc = "call"
    /\ cIn = [capabilities |-> NoCapabilities, keepCaps |-> <<>>,
              currentCaps |-> [t \in CapTypes |-> {}]]
    /\ cErr = "nil"

InitUndoVars ==
    /\ err = "nil"
    /\ mounted = TRUE
    /\ hpc = "idle"
    /\ err2 = "nil"
    /\ retries = 0
    /\ attempts = 0
    /\ busyFails = 0
    /\ calls = 0
    /\ errAtCall = "nil"
    /\ setupErr = "nil"
    /\ firstUnmountErr = "nil"
    /\ firstRet = "nil"
    /\ lastRet = "nil"

NoFlags == [request |-> {}, expected |-> {}]

InitFlagVars ==
    /\ fpc = "call"
    /\ fIn = <<>>
    /\ fOut = NoFlags

NoIteration ==
    [entry |-> 0, passed |-> FALSE, calls |-> <<>>, target |-> <<>>, exists |-> FALSE,
     request |-> {}, expected |-> {}, observed |-> {}, flags |-> {},
     err |-> "nil", handle |-> "undoBinds"]

InitMountVars ==
    /\ mnts = <<>>
    /\ mi = 1
    /\ mpc = "loop"
    /\ mLast = NoIteration

InitRoVars ==
    /\ roPaths = <<>>
    /\ roFs = <<>>
    /\ ri = 1
    /\ rpass = 1
    /\ rpc = "loop"
    /\ rErr = "nil"
    /\ rCalls = 0
    /\ rLast = "none"

NoMasking ==
    [entry |-> 0, calls |-> <<>>, err |-> "nil", isReadOnly |-> FALSE,
     isAccessible |-> FALSE, hasContent |-> FALSE, opened |-> FALSE, nullStat |-> FALSE]

InitMaskVars ==
    /\ maskedPaths = <<>>
    /\ idMappings = [uid |-> <<>>, gid |-> <<>>]
    /\ ki = 1
    /\ kpc = "mkdir"
    /\ kLast = NoMasking

\* setRlimits has not been called
InitRlVars ==
    /\ rlIn = <<>>
    /\ rlFlags = [onlyLower |-> FALSE, onlyRaise |-> FALSE]
    /\ rlCur0 = <<>>
    /\ rlCur = <<>>
    /\ rlPc = "call"
    /\ rlErr = "nil"
    /\ rlLimits = <<>>
    /\ rlTodo = {}
    /\ rlCalls = {}

\* no iteration of the loop over the host's mounts has run
NoSysIteration == [entry |-> 0, outcome |-> "none", calls |-> <<>>]

\* nothing has returned from inside the loop
NoReturn == [handle |-> "none", err |-> "nil"]

InitSysVars ==
    /\ sysMnts = <<>>
    /\ si = 1
    /\ spc = "loop"
    /\ sRet = NoReturn
    /\ sLast = NoSysIteration

InitSetupVars ==
    /\ InitFlagVars /\ InitMountVars /\ InitRoVars /\ InitMaskVars
    /\ InitRlVars /\ InitSysVars

InitMainVars ==
    /\ pc = "decode"
    /\ options = NoOptions
    /\ exitStatus = -1
    /\ failed = "none"
    /\ failedAt = 0
    /\ done = <<>>
    /\ rootId = [dev |-> 1, ino |-> 1]
    /\ oldst = NoStat
    /\ newst = NoStat
    /\ suppGroups = InheritedGroups
    /\ setgroups = ""
    /\ ids = [uid |-> 0, gid |-> 0]
    /\ procCaps = InheritedCaps
    /\ cmdProcess = "nil"
    /\ child = "none"
    /\ childStatus = 0
    /\ waitErr = NoWaitErr
    /\ relayPc = "none"
    /\ interrupted = 0
    /\ chanClosed = FALSE
    /\ notifying = FALSE
    /\ arrived = 0
    /\ forwarded = 0

Init == InitMainVars /\ InitCapVars /\ InitUndoVars /\ InitSetupVars

Next ==
    \/ Decode \/ Validate \/ Hostname
    \/ StatRoot \/ ChdirRoot \/ Chroot \/ StatNew \/ Compare \/ ReplaceRoot
    \/ Apparmor \/ Selinux \/ Rlimits \/ ChdirSlash \/ ChdirCwd
    \/ Groups \/ Setresgid \/ Seccomp \/ Capabilities \/ Setresuid
    \/ Start \/ GoRelay \/ Notify \/ Wait \/ Stop \/ Close \/ Translate
    \/ (\E s \in ChildStatuses : ChildExits(s)) \/ ChildKilled
    \/ SignalArrives \/ RelayRecv \/ RelayEnd \/ RelaySignal

Spec == Init /\ [][Next]_vars

(***************************************************************************)
(* Claims about the main sequence (specification Spec).                    *)
(***************************************************************************)
IsPrefix(s, t) == Len(s) <= Len(t) /\ \A i \in 1..Len(s) : s[i] = t[i]

Performed(op) == op \in Range(done)

PrivOps == {"setgroups", "setresgid", "seccomp", "capabilities", "setresuid"}

IsPrivOp(op) == op \in PrivOps

\* the privilege-reducing operations performed so far, in order
PrivLog == SelectSeq(done, IsPrivOp)

FullReduction == <<"setgroups", "setresgid", "seccomp", "capabilities", "setresuid">>

ReductionWithoutSetgroups == <<"setresgid", "seccomp", "capabilities", "setresuid">>

\* the sequence is at, or has gone through, cmd.Start()
LaunchReached == pc = "start" \/ Performed("start") \/ failed = "start"

\* C1 as stated: in every run that reaches the launch, the privilege-reducing
\* operations performed are exactly setgroups (set or cleared), setresgid, seccomp,
\* capabilities, setresuid, in this order.
C1_AlwaysFullReduction == LaunchReached => PrivLog = FullReduction

\* C1 as amended: at every moment the privilege-reducing operations performed are a
\* prefix of setgroups, setresgid, seccomp, capabilities, setresuid, or, only when
\* no additional GIDs are configured and the groups were left as inherited (the
\* kernel reports setgroups as denied), a prefix of the same order without the
\* setgroups call; when the launch is reached the order is complete, the groups are
\* the configured list if setgroups was called, and GID and UID are the targets.
C1_ReductionOrder ==
    /\ \/ /\ IsPrefix(PrivLog, FullReduction)
          /\ Performed("setgroups") => suppGroups = options.additionalGids
       \/ /\ IsPrefix(PrivLog, ReductionWithoutSetgroups)
          /\ options.additionalGids = <<>>
          /\ suppGroups = InheritedGroups
    /\ LaunchReached =>
          /\ PrivLog \in {FullReduction, ReductionWithoutSetgroups}
          /\ ids = [uid |-> options.uid, gid |-> options.gid]

\* a launch after the full reduction to a non-root user
C1_Witness ==
    /\ pc = "start"
    /\ PrivLog = FullReduction
    /\ options.uid = 1000
    /\ ids.uid = 1000

ChrootOps == <<"stat_root", "chdir_root", "chroot", "stat_new">>

IsChrootOp(op) == op \in Range(ChrootOps)

\* what the sequence performs after the chroot entry
AfterChrootOps ==
    {"apparmor", "selinux", "rlimits", "chdir_slash", "chdir_cwd", "setgroups",
     "setresgid", "seccomp", "capabilities", "setresuid", "start", "go_relay",
     "notify", "wait", "stop", "close"}

\* C2: the chroot entry runs stat, chdir, chroot, stat in this order; anything after
\* it is performed only when the (dev, ino) taken before chdir equals the (dev, ino)
\* of "/" after chroot; when they differ the process has exited with status 1 and
\* no policy, limit, identity change or launch was performed.
C2_ChrootIntegrity ==
    /\ IsPrefix(SelectSeq(done, IsChrootOp), ChrootOps)
    /\ (\E op \in AfterChrootOps : Performed(op)) =>
          /\ SelectSeq(done, IsChrootOp) = ChrootOps
          /\ oldst = newst
    /\ (Performed("stat_new") /\ oldst # newst /\ pc # "compare") =>
          /\ pc = "exited"
          /\ exitStatus = 1
          /\ failed = "compare"
          /\ ~ \E op \in AfterChrootOps : Performed(op)
          /\ suppGroups = InheritedGroups
          /\ procCaps = InheritedCaps
          /\ ids = [uid |-> 0, gid |-> 0]
          /\ child = "none"
          /\ relayPc = "none"

\* the root was replaced on another device, under the same inode number
C2_Witness ==
    /\ pc = "exited"
    /\ failed = "compare"
    /\ oldst.ino = newst.ino
    /\ oldst.dev # newst.dev

\* C3: once the operation of a step other than the hostname step has failed, the
\* process has exited with a nonzero status and nothing was performed after the
\* failure, the start of the relay and the wait included.
C3_EveryFailureFatal ==
    failed # "none" =>
        /\ pc = "exited"
        /\ exitStatus \notin {-1, 0}
        /\ Len(done) = failedAt
        /\ relayPc = "none"

\* the exit status the claim gives for what cmd.Wait returned
ClaimedExit(e) ==
    CASE e.kind = "nil" -> 0
      [] e.kind = "ExitError" /\ e.exited -> e.status
      [] e.kind = "ExitError" /\ e.signaled -> 1
      [] OTHER -> 1

\* C4: once the wait has returned, the process ends with the child's status when
\* the child exited normally, with 1 when a signal killed it, with 1 for any other
\* wait failure, and with no other status.
C4_ExitTranslation ==
    (Performed("wait") /\ ~Alive) => exitStatus = ClaimedExit(waitErr)

\* the relay goroutine is scheduled whenever it can take a step
SpecFair == Spec /\ WF_vars(RelayRecv) /\ WF_vars(RelaySignal)

\* signals the relay has received from the channel and not yet forwarded
InFlight == IF relayPc = "signal" THEN 1 ELSE 0

Positions(op) == {i \in 1..Len(done) : done[i] = op}

Before(a, b) == \A i \in Positions(a), j \in Positions(b) : i < j

\* C12: signal.Stop and close(interrupted) run only after cmd.Wait has observed the
\* exit of the child, Stop before close; nothing is queued once the channel is
\* closed and the channel is closed at most once.
C12_StopThenClose ==
    /\ Performed("stop") => (Performed("wait") /\ child = "reaped")
    /\ Performed("close") => (Performed("stop") /\ Before("stop", "close"))
    /\ Cardinality(Positions("close")) <= 1
    /\ chanClosed => ~notifying

\* the part of C12 about the order alone: Stop and close run after cmd.Wait has
\* returned, Stop before close, close once, and nothing is queued after the close
StopCloseOrder ==
    /\ Performed("stop") => (Performed("wait") /\ Before("wait", "stop"))
    /\ Performed("close") => (Performed("stop") /\ Before("stop", "close"))
    /\ Cardinality(Positions("close")) <= 1
    /\ chanClosed => ~notifying
    /\ [][chanClosed => interrupted' <= interrupted]_vars

MacOps == {"apparmor", "selinux"}

\* C13: the profile and then the label are applied after the verification of the
\* chroot and after the hostname step and before every privilege-reducing
\* operation: a privilege-reducing operation is performed only once the label step
\* has succeeded, and no MAC operation follows one.
C13_MacBeforePrivileges ==
    /\ \A m \in MacOps :
         /\ Before("compare", m)
         /\ Before("sethostname", m)
         /\ Performed(m) => Performed("compare")
         /\ \A p \in PrivOps : Before(m, p)
    /\ Before("apparmor", "selinux")
    /\ \A p \in PrivOps : Performed(p) => Performed("selinux")

\* the hostname set, the profile and the label applied, and the UID changed after
C13_Witness ==
    /\ Performed("sethostname")
    /\ Performed("apparmor")
    /\ Performed("selinux")
    /\ Performed("setgroups")
    /\ Performed("setresuid")
    /\ ids.uid = 1000

\* the kernel reports setgroups as denied: the line it writes, or the bare word
KernelDenies == setgroups \in {"deny\n", "deny"}

\* the supplementary groups the step is to leave behind
GroupsExpected ==
    IF Len(options.additionalGids) > 0 THEN options.additionalGids
    ELSE IF KernelDenies THEN InheritedGroups
    ELSE <<>>

\* C23: once the groups step is over, and ever after the GID change, the
\* supplementary groups are the additional GIDs listed, if any are; else empty, if
\* /proc/self/setgroups does not say deny; else what the process inherited, no
\* setgroups call having been made.  The call is made in the first two cases, it
\* comes before setresgid, and the GID is still the initial one when the step ends.
C23_SupplementaryGroups ==
    /\ (pc = "setresgid" \/ Performed("setresgid")) =>
          /\ suppGroups = GroupsExpected
          /\ Performed("setgroups") <=> (Len(options.additionalGids) > 0 \/ ~KernelDenies)
    /\ Before("setgroups", "setresgid")
    /\ pc = "setresgid" => ids.gid = 0
    /\ ids.gid # 0 => Performed("setresgid")
    /\ suppGroups # InheritedGroups => Performed("setgroups")
C23_Witness ==
    /\ Performed("setresgid")
    /\ options.additionalGids = <<>>
    /\ setgroups = "deny\n"
    /\ suppGroups = InheritedGroups
    /\ ~Performed("setgroups")
    /\ ids.gid = options.gid

\* C26: in every interleaving the relay sends its kill signal through the handle of
\* a child that was started, never through an absent one (which is a panic), and
\* when the launch has failed the bootstrap exits with status 1.
C26_RelayOnlyStartedChild ==
    /\ relayPc # "panicked"
    /\ forwarded > 0 => cmdProcess = "set"
    /\ (failed = "start" /\ pc = "exited") => exitStatus = 1

(***************************************************************************)
(* setCapabilities on its own (specification SpecCaps).                    *)
(***************************************************************************)
\* setCapabilities(spec, keepCaps...): Load, the loop over capMap, Apply
SetCapabilities ==
    /\ cpc = "call"
    /\ \/ /\ cpc' = "error"
          /\ cErr' = "load"
          /\ UNCHANGED procCaps
       \/ LET r == ComputeCaps(cIn.capabilities, cIn.keepCaps, cIn.currentCaps)
          IN  IF r.err # "nil"
              THEN /\ cpc' = "error"
                   /\ cErr' = r.err
                   /\ UNCHANGED procCaps
              ELSE \/ /\ cpc' = "applied"
                      /\ cErr' = "nil"
                      /\ procCaps' = r.caps
                   \/ /\ cpc' = "error"
                      /\ cErr' = "apply"
                      /\ UNCHANGED procCaps
    /\ UNCHANGED <<cIn, relayVars, undoVars, setupVars>>
    /\ UNCHANGED <<pc, options, exitStatus, failed, failedAt, done, rootId, oldst, newst,
                   suppGroups, setgroups, ids, cmdProcess, child, childStatus, waitErr>>

InitCaps ==
    /\ InitMainVars
    /\ InitUndoVars
    /\ InitSetupVars
    /\ cpc = "call"
    /\ cErr = "nil"
    /\ cIn \in [capabilities : CapabilitiesUpTo(MaxCapEntries),
                keepCaps : KeepLists,
                currentCaps : CurrentCapsUpTo(MaxHeld)]

\* the call site: os.Exit(1) on an error of setCapabilities, the UID change otherwise
CapsCaller ==
    /\ cpc \in {"applied", "error"}
    /\ IF cpc = "error"
       THEN /\ cpc' = "exited"
            /\ exitStatus' = 1
            /\ UNCHANGED ids
       ELSE /\ cpc' = "setresuid"
            /\ \E uid \in {0, 1000} : ids' = [ids EXCEPT !.uid = uid]
            /\ UNCHANGED exitStatus
    /\ UNCHANGED <<cIn, cErr, relayVars, undoVars, setupVars>>
    /\ UNCHANGED <<pc, options, failed, failedAt, done, rootId, oldst, newst,
                   suppGroups, setgroups, procCaps, cmdProcess, child, childStatus, waitErr>>

NextCaps == SetCapabilities \/ CapsCaller

SpecCaps == InitCaps /\ [][NextCaps]_vars

\* the capabilities the specification lists for a set
Specified(capType) == {LookupCap(n) : n \in Range(capMap(cIn.capabilities)[capType])}

\* C5: a keep capability that the current process does not hold in a set, and that
\* the specification does not list for that set, is absent from that set as
\* applied: keeping adds a capability only where the process already holds it.
C5_KeepNeverGrants ==
    cpc = "applied" =>
        \A capType \in CapTypes : \A i \in 1..Len(cIn.keepCaps) :
            LET cap == LookupCap(cIn.keepCaps[i])
            IN  (cap \notin cIn.currentCaps[capType] /\ cap \notin Specified(capType))
                    => cap \notin procCaps[capType]

\* CAP_SETUID kept in the effective set, where the process holds it, and not in the
\* permitted set, where it does not
C5_Witness ==
    /\ cpc = "applied"
    /\ cIn.keepCaps = <<"CAP_SETUID">>
    /\ "setuid" \in cIn.currentCaps["EFFECTIVE"]
    /\ "setuid" \notin cIn.currentCaps["PERMITTED"]
    /\ procCaps["EFFECTIVE"] = {"setuid"}
    /\ procCaps["PERMITTED"] = {}

\* C6: the inheritable set setCapabilities applies is empty.
C6_InheritableEmpty == cpc = "applied" => procCaps["INHERITABLE"] = {}

\* the names given to setCapabilities: the four lists it reads and the keep list
GivenNames ==
    UNION {Range(capMap(cIn.capabilities)[t]) : t \in CapTypes} \cup Range(cIn.keepCaps)

AnyUnresolved == \E n \in GivenNames : LookupCap(n) = noCap

\* C21: with a name that maps to no capability in one of the four lists or in the
\* keep list, setCapabilities returns an error without reaching Apply, no set of
\* the process is changed and the caller exits with 1 before the UID change; the
\* sets are changed only when every name maps, and then all of them are as computed.
C21_AllOrNothing ==
    /\ (AnyUnresolved /\ cpc # "call") =>
           /\ cpc \in {"error", "exited"}
           /\ cErr \in {"mapping", "load"}
           /\ procCaps = InheritedCaps
           /\ ids.uid = 0
           /\ cpc = "exited" => exitStatus = 1
    /\ procCaps # InheritedCaps =>
           /\ ~AnyUnresolved
           /\ cpc \in {"applied", "setresuid"}
           /\ \A t \in CapTypes :
                 procCaps[t] = {LookupCap(n) : n \in Range(capMap(cIn.capabilities)[t])}
                               \cup {LookupCap(n) : n \in {k \in Range(cIn.keepCaps) :
                                                            LookupCap(k) \in cIn.currentCaps[t]}}

\* a bounding capability that maps, a keep name that does not: the caller has exited
C21_Witness ==
    /\ cpc = "exited"
    /\ cIn.capabilities.Bounding = <<"CAP_NET_BIND_SERVICE">>
    /\ cIn.keepCaps = <<"CAP_BOGUS">>
    /\ cErr = "mapping"
    /\ exitStatus = 1
    /\ procCaps = InheritedCaps

(***************************************************************************)
(* The cleanup handle undoBinds (specifications SpecUndo, SpecUndoFair).   *)
(***************************************************************************)
BusyErrors == {"EBUSY", "EAGAIN"}

\* what unix.Unmount(spec.Root.Path, MNT_DETACH) may return
UnmountOutcomes(isMounted) ==
    IF isMounted THEN {"nil", "EBUSY", "EAGAIN", "EPERM"} ELSE {"EINVAL", "EPERM"}

\* a loop that stops one retry later
KeepRetryingOneMore(e, n) == e \in BusyErrors /\ n <= MaxRetries

\* a loop that retries on any error
KeepRetryingAnyError(e, n) == e # "nil" /\ n < MaxRetries

\* (err2 == unix.EBUSY || err2 == unix.EAGAIN) && retries < 50
KeepRetrying(e, n) == e \in BusyErrors /\ n < MaxRetries

\* the last error wins
RecordLastErr(old, new) == new

\* if err == nil { err = err2 }
RecordErr(old, new) == IF old = "nil" THEN new ELSE old

\* return err
Return(v) ==
    /\ hpc' = "idle"
    /\ calls' = calls + 1
    /\ lastRet' = v
    /\ firstRet' = IF calls = 0 THEN v ELSE firstRet

\* an invocation begins: the first unix.Unmount, and the return when it succeeded
UndoCall ==
    /\ hpc = "idle"
    /\ calls < MaxCalls
    /\ \E r \in UnmountOutcomes(mounted) :
         /\ err2' = r
         /\ mounted' = IF r = "nil" THEN FALSE ELSE mounted
         /\ busyFails' = IF r \in BusyErrors THEN 1 ELSE 0
         /\ IF r = "nil"
            THEN Return(err)
            ELSE /\ hpc' = "loop"
                 /\ UNCHANGED <<calls, lastRet, firstRet>>
    /\ errAtCall' = err
    /\ attempts' = 1
    /\ retries' = 0
    /\ UNCHANGED <<err, setupErr, firstUnmountErr>>
    /\ UNCHANGED <<mainVars, relayVars, capVars, setupVars>>

\* one turn of the retry loop: sleep, unmount again, retries++
UndoRetry ==
    /\ hpc = "loop"
    /\ KeepRetrying(err2, retries)
    /\ \E r \in UnmountOutcomes(mounted) :
         /\ err2' = r
         /\ mounted' = IF r = "nil" THEN FALSE ELSE mounted
         /\ busyFails' = IF r \in BusyErrors THEN busyFails + 1 ELSE busyFails
    /\ retries' = retries + 1
    /\ attempts' = attempts + 1
    /\ UNCHANGED <<err, hpc, calls, errAtCall, setupErr, firstUnmountErr, firstRet, lastRet>>
    /\ UNCHANGED <<mainVars, relayVars, capVars, setupVars>>

\* after the loop: a remaining err2 is logged and recorded in err; return err
UndoReturn ==
    /\ hpc = "loop"
    /\ ~KeepRetrying(err2, retries)
    /\ IF err2 # "nil"
       THEN /\ err' = RecordErr(err, err2)
            /\ firstUnmountErr' = IF firstUnmountErr = "nil" THEN err2 ELSE firstUnmountErr
       ELSE UNCHANGED <<err, firstUnmountErr>>
    /\ Return(err')
    /\ UNCHANGED <<mounted, err2, retries, attempts, busyFails, errAtCall, setupErr>>
    /\ UNCHANGED <<mainVars, relayVars, capVars, setupVars>>

\* setupChrootBindMounts has returned: err is nil or the error of one of its steps
InitUndo ==
    /\ InitMainVars
    /\ InitCapVars
    /\ InitSetupVars
    /\ setupErr \in {"nil", "ESETUP"}
    /\ err = setupErr
    /\ mounted \in BOOLEAN
    /\ hpc = "idle"
    /\ err2 = "nil"
    /\ retries = 0
    /\ attempts = 0
    /\ busyFails = 0
    /\ calls = 0
    /\ errAtCall = "nil"
    /\ firstUnmountErr = "nil"
    /\ firstRet = "nil"
    /\ lastRet = "nil"

NextUndo == UndoCall \/ UndoRetry \/ UndoReturn

SpecUndo == InitUndo /\ [][NextUndo]_vars

\* an invocation that has begun runs on: the function sleeps 50ms and goes on
SpecUndoFair == SpecUndo /\ WF_vars(UndoRetry) /\ WF_vars(UndoReturn)

Returned == hpc = "idle" /\ calls >= 1

\* C7 as stated: every call of the handle returns what the first call returned.
C7_SameAsFirstCall == Returned => lastRet = firstRet

\* C7 as amended: a call that returned nil may be followed by one that returns an
\* error, but once a call has returned an error every later call returns that
\* same error, whatever the state of the mount.
C7_ErrorSticks == [][(calls >= 1 /\ lastRet # "nil") => lastRet' = lastRet]_vars

\* a third call returns EINVAL as the second did, after a first that unmounted the
\* root and returned nil
C7_Witness ==
    /\ Returned
    /\ calls >= 3
    /\ firstRet = "nil"
    /\ lastRet = "EINVAL"
    /\ err2 = "EINVAL"
    /\ ~mounted

\* C8 as stated: a call returns the first error an unmount ended with over all the
\* calls so far, nil if none did.
C8_FirstUnmountErrorWins == Returned => lastRet = firstUnmountErr

\* C8 as amended: a call returns the error setupChrootBindMounts itself returned
\* when it returned one, else the first error an invocation's unmount ended with
\* over all the calls so far, nil if none did; every call attempts the unmount.
C8_FirstErrorWins ==
    Returned =>
        /\ lastRet = IF setupErr # "nil" THEN setupErr ELSE firstUnmountErr
        /\ lastRet = err
        /\ attempts >= 1

\* a call whose unmount ended with EINVAL returns the EBUSY an earlier call recorded
C8_Witness ==
    /\ Returned
    /\ setupErr = "nil"
    /\ firstUnmountErr = "EBUSY"
    /\ err2 = "EINVAL"
    /\ lastRet = "EBUSY"

C10_RetryCount ==
    Returned =>
        /\ err2 = "nil" => (attempts = busyFails + 1 /\ lastRet = "nil")
        /\ err2 \notin BusyErrors \cup {"nil"} =>
              (attempts = busyFails + 1 /\ lastRet = err2)

\* C10 as amended: the attempts are as stated; the invocation returns nil,
\* respectively that error, when no error was recorded before it began, and the
\* error recorded earlier otherwise.
C10_RetryCountFirstError ==
    Returned =>
        /\ err2 = "nil" =>
              /\ attempts = busyFails + 1
              /\ lastRet = errAtCall
        /\ err2 \notin BusyErrors \cup {"nil"} =>
              /\ attempts = busyFails + 1
              /\ lastRet = IF errAtCall = "nil" THEN err2 ELSE errAtCall

\* three busy attempts, then success: four attempts, nil returned
C10_Witness ==
    /\ Returned
    /\ errAtCall = "nil"
    /\ busyFails = 3
    /\ attempts = 4
    /\ err2 = "nil"
    /\ lastRet = "nil"

(***************************************************************************)
(* The mount flags of a caller's mount (specification SpecFlags).          *)
(* A flag word is the set of the flags set in it; MS_RDONLY, MS_NOSUID,    *)
(* MS_NODEV and MS_NOEXEC have the values of ST_RDONLY, ST_NOSUID,         *)
(* ST_NODEV and ST_NOEXEC and carry the same names here.                   *)
(***************************************************************************)
\* option strings of a mount entry; "bind" stands for the ones the switch ignores
OptionTokens == {"nodev", "dev", "noexec", "exec", "nosuid", "suid", "ro", "rw", "bind"}

\* commonFlags := MS_BIND | MS_REC | MS_PRIVATE
commonFlags == {"BIND", "REC", "PRIVATE"}

\* bindFlags := commonFlags | MS_NODEV
bindFlags == commonFlags \cup {"NODEV"}

\* a switch whose permitting tokens clear nothing
ApplyOptionSetOnly(f, option) ==
    CASE option = "nodev"  -> [request |-> f.request \cup {"NODEV"}, expected |-> f.expected \cup {"NODEV"}]
      [] option = "noexec" -> [request |-> f.request \cup {"NOEXEC"}, expected |-> f.expected \cup {"NOEXEC"}]
      [] option = "nosuid" -> [request |-> f.request \cup {"NOSUID"}, expected |-> f.expected \cup {"NOSUID"}]
      [] option = "ro"     -> [request |-> f.request \cup {"RDONLY"}, expected |-> f.expected \cup {"RDONLY"}]
      [] OTHER -> f

\* switch option { case "nodev": ... case "rw": ... }
ApplyOption(f, option) ==
    CASE option = "nodev"  -> [request |-> f.request \cup {"NODEV"}, expected |-> f.expected \cup {"NODEV"}]
      [] option = "dev"    -> [request |-> f.request \ {"NODEV"}, expected |-> f.expected \ {"NODEV"}]
      [] option = "noexec" -> [request |-> f.request \cup {"NOEXEC"}, expected |-> f.expected \cup {"NOEXEC"}]
      [] option = "exec"   -> [request |-> f.request \ {"NOEXEC"}, expected |-> f.expected \ {"NOEXEC"}]
      [] option = "nosuid" -> [request |-> f.request \cup {"NOSUID"}, expected |-> f.expected \cup {"NOSUID"}]
      [] option = "suid"   -> [request |-> f.request \ {"NOSUID"}, expected |-> f.expected \ {"NOSUID"}]
      [] option = "ro"     -> [request |-> f.request \cup {"RDONLY"}, expected |-> f.expected \cup {"RDONLY"}]
      [] option = "rw"     -> [request |-> f.request \ {"RDONLY"}, expected |-> f.expected \ {"RDONLY"}]
      [] OTHER -> f

\* for _, option := range m.Options { switch option ... }
RECURSIVE ApplyOptions(_, _)
ApplyOptions(f, opts) ==
    IF opts = <<>> THEN f ELSE ApplyOptions(ApplyOption(f, Head(opts)), Tail(opts))

\* requestFlags := bindFlags; expectedFlags := uintptr(0); the loop over m.Options
MountFlags(opts) == ApplyOptions([request |-> bindFlags, expected |-> {}], opts)

DeriveFlags ==
    /\ fpc = "call"
    /\ fOut' = MountFlags(fIn)
    /\ fpc' = "done"
    /\ UNCHANGED fIn
    /\ UNCHANGED <<mainVars, relayVars, capVars, undoVars, rlVars, sysVars, mountVars, roVars, maskVars>>

InitFlags ==
    /\ InitMainVars
    /\ InitCapVars
    /\ InitUndoVars
    /\ InitMountVars
    /\ InitRoVars
    /\ InitMaskVars
    /\ InitRlVars
    /\ InitSysVars
    /\ fpc = "call"
    /\ fIn \in SeqsUpTo(OptionTokens, MaxOptions)
    /\ fOut = NoFlags

NextFlags == DeriveFlags

SpecFlags == InitFlags /\ [][NextFlags]_vars

\* the four axes: the restricting token, the permitting token and the flag
Axes ==
    {[set |-> "nodev", clear |-> "dev", flag |-> "NODEV"],
     [set |-> "noexec", clear |-> "exec", flag |-> "NOEXEC"],
     [set |-> "nosuid", clear |-> "suid", flag |-> "NOSUID"],
     [set |-> "ro", clear |-> "rw", flag |-> "RDONLY"]}

AxisFlags == {a.flag : a \in Axes}

\* the positions of the tokens of an axis in a list of options
AxisPositions(a, opts) == {i \in 1..Len(opts) : opts[i] \in {a.set, a.clear}}

Last(S) == CHOOSE i \in S : \A j \in S : j <= i

\* the tokens of an axis, in their order in the list
RECURSIVE OnlyAxis(_, _)
OnlyAxis(a, opts) ==
    IF opts = <<>> THEN <<>>
    ELSE IF Head(opts) \in {a.set, a.clear}
         THEN <<Head(opts)>> \o OnlyAxis(a, Tail(opts))
         ELSE OnlyAxis(a, Tail(opts))

\* C15: on each axis the last token of the axis decides the request flag and the
\* expected flag alike - both set after the restricting token, both clear after the
\* permitting one - and the tokens of other axes and unknown tokens change nothing
\* on the axis.
C15_LastTokenWins ==
    fpc = "done" =>
        \A a \in Axes :
            /\ AxisPositions(a, fIn) # {} =>
                 LET last == fIn[Last(AxisPositions(a, fIn))]
                 IN  /\ last = a.set => (a.flag \in fOut.request /\ a.flag \in fOut.expected)
                     /\ last = a.clear => (a.flag \notin fOut.request /\ a.flag \notin fOut.expected)
            /\ (a.flag \in fOut.request) = (a.flag \in MountFlags(OnlyAxis(a, fIn)).request)
            /\ (a.flag \in fOut.expected) = (a.flag \in MountFlags(OnlyAxis(a, fIn)).expected)

\* ro, then nodev, then rw: read-only cleared again, nodev set
C15_Witness ==
    /\ fpc = "done"
    /\ fIn = <<"ro", "nodev", "rw">>
    /\ fOut.request = bindFlags
    /\ fOut.expected = {"NODEV"}

(***************************************************************************)
(* The loop over spec.Mounts (specification SpecMounts).                   *)
(* A path string is the sequence of its separators "/" and its names; a    *)
(* cleaned path is the sequence of its names from the root.                *)
(***************************************************************************)
\* spec.Root.Path, cleaned
rootPath == <<"rootfs">>

\* strings.HasPrefix
HasPrefix(str, prefix) ==
    Len(str) >= Len(prefix) /\ SubSeq(str, 1, Len(prefix)) = prefix

IsName(t) == t # "/"

\* the elements of a path between its separators
Components(path) == SelectSeq(path, IsName)

\* filepath.Clean on the names of an absolute path: "." dropped, ".." takes the name
\* before it away and stays at the root
RECURSIVE CleanNames(_, _)
CleanNames(cleaned, names) ==
    IF names = <<>> THEN cleaned
    ELSE LET n == Head(names)
         IN  CASE n = "." -> CleanNames(cleaned, Tail(names))
               [] n = ".." -> CleanNames(IF cleaned = <<>> THEN <<>>
                                         ELSE SubSeq(cleaned, 1, Len(cleaned) - 1),
                                         Tail(names))
               [] OTHER -> CleanNames(Append(cleaned, n), Tail(names))

\* filepath.Join(spec.Root.Path, m.Destination)
Join(root, path) == CleanNames(<<>>, root \o Components(path))

\* a filter that lets every destination through
SkippedNever(destination) == FALSE

\* switch m.Destination { case "/dev", "/proc", "/sys": continue; default: the three
\* strings.HasPrefix tests }
SkippedByDestination(destination) ==
    \/ destination \in {<<"/", "dev">>, <<"/", "proc">>, <<"/", "sys">>}
    \/ HasPrefix(destination, <<"/", "dev", "/">>)
    \/ HasPrefix(destination, <<"/", "proc", "/">>)
    \/ HasPrefix(destination, <<"/", "sys", "/">>)

\* m.Type != "bind" && m.Type != "tmpfs" && m.Type != "overlay"
SkippedByType(type) == type \notin {"bind", "tmpfs", "overlay"}

\* a comparison that never asks for the remount
NeedsRemountNever(observed, expected) == FALSE

\* uintptr(fs.Flags)&expectedFlags != expectedFlags
NeedsRemount(observed, expected) == (observed \cap expected) # expected

\* where copier.Eval leaves the target of a symbolic link
resolvedTarget == <<"rootfs", "resolved">>

\* what the system calls of one iteration may answer: whether the source is a
\* directory, what os.Lstat and the calls after it on a symbolic link find at the
\* target, the first call to fail, and the flags the kernel shows after the mount
MountEnvs ==
    [srcIsDir : BOOLEAN,
     lstat : {"exists", "missing", "error", "symlink_evalerr", "symlink_exists",
              "symlink_missing", "symlink_staterr"},
     failAt : {"none", "stat_source", "create", "mount", "statfs", "remount"},
     kflags : {{}, {"NOSUID"}, {"NODEV", "NOEXEC", "NOSUID", "RDONLY"}}]

\* one iteration of the loop on an entry that passed the two filters
Iteration(i, m, e) ==
    LET srcIsDir == m.type # "bind" \/ e.srcIsDir
        isLink == e.lstat \in {"symlink_evalerr", "symlink_exists", "symlink_missing",
                                "symlink_staterr"}
        target == IF isLink /\ e.lstat # "symlink_evalerr" THEN resolvedTarget
                  ELSE Join(rootPath, m.destination)
        missing == e.lstat \in {"missing", "symlink_missing"}
        creation == IF ~missing THEN <<>>
                    ELSE IF srcIsDir THEN <<"mkdirall">>
                    ELSE IF e.failAt = "create" THEN <<"mkdirall_parent">>
                    ELSE <<"mkdirall_parent", "openfile">>
        f == MountFlags(m.options)
        base == [NoIteration EXCEPT !.entry = i, !.passed = TRUE, !.target = target]
        created == [base EXCEPT !.calls = creation, !.exists = TRUE,
                                !.request = f.request, !.expected = f.expected]
        mounted1 == [created EXCEPT !.calls = creation \o <<"mount">>]
        seen == [mounted1 EXCEPT !.observed = e.kflags, !.flags = e.kflags]
    IN  IF e.failAt = "stat_source"
             THEN [base EXCEPT !.target = <<>>, !.err = "stat_source"]
        ELSE IF e.lstat = "symlink_evalerr"
             THEN [base EXCEPT !.err = "eval_symlink", !.handle = "nil"]
        ELSE IF e.lstat \in {"error", "symlink_staterr"}
             THEN [base EXCEPT !.err = "examine_target"]
        ELSE IF missing /\ e.failAt = "create"
             THEN [base EXCEPT !.calls = creation, !.err = "create_mountpoint"]
        ELSE IF e.failAt = "mount" THEN [mounted1 EXCEPT !.err = "mount"]
        ELSE IF e.failAt = "statfs" THEN [mounted1 EXCEPT !.err = "statfs"]
        ELSE IF ~NeedsRemount(e.kflags, f.expected) THEN seen
        ELSE IF e.failAt = "remount"
             THEN [seen EXCEPT !.calls = mounted1.calls \o <<"remount">>, !.err = "remount"]
        ELSE [seen EXCEPT !.calls = mounted1.calls \o <<"remount">>,
                          !.flags = f.request \cap {"NODEV", "NOEXEC", "NOSUID", "RDONLY"}]

\* the body of for _, m := range spec.Mounts, once
MountEntry ==
    /\ mpc = "loop"
    /\ mi <= Len(mnts)
    /\ LET m == mnts[mi]
       IN  IF SkippedByDestination(m.destination) \/ SkippedByType(m.type)
           THEN /\ mLast' = [NoIteration EXCEPT !.entry = mi]
                /\ mi' = mi + 1
                /\ UNCHANGED mpc
           ELSE \E e \in MountEnvs :
                  /\ mLast' = Iteration(mi, m, e)
                  /\ IF mLast'.err = "nil"
                     THEN /\ mi' = mi + 1
                          /\ UNCHANGED mpc
                     ELSE /\ mpc' = "returned"
                          /\ UNCHANGED mi
    /\ UNCHANGED mnts
    /\ UNCHANGED <<mainVars, relayVars, capVars, undoVars, rlVars, sysVars, flagVars, roVars, maskVars>>

\* the loop has run out of entries
MountsDone ==
    /\ mpc = "loop"
    /\ mi > Len(mnts)
    /\ mpc' = "end"
    /\ UNCHANGED <<mnts, mi, mLast>>
    /\ UNCHANGED <<mainVars, relayVars, capVars, undoVars, rlVars, sysVars, flagVars, roVars, maskVars>>

\* destinations of caller's mounts: /dev, /proc/sys, /data, /devices, //dev, proc
Destinations ==
    {<<"/", "dev">>, <<"/", "proc", "/", "sys">>, <<"/", "data">>, <<"/", "devices">>,
     <<"/", "/", "dev">>, <<"proc">>}

MountTypes == {"bind", "tmpfs", "overlay", "proc"}

OptionLists == {<<>>, <<"ro">>, <<"nosuid", "dev">>}

MountEntries == [destination : Destinations, type : MountTypes, options : OptionLists]

InitMounts ==
    /\ InitMainVars
    /\ InitCapVars
    /\ InitUndoVars
    /\ InitFlagVars
    /\ InitRoVars
    /\ InitMaskVars
    /\ InitRlVars
    /\ InitSysVars
    /\ mnts \in SeqsUpTo(MountEntries, MaxMounts)
    /\ mi = 1
    /\ mpc = "loop"
    /\ mLast = NoIteration

NextMounts == MountEntry \/ MountsDone

SpecMounts == InitMounts /\ [][NextMounts]_vars

\* the entry of the last iteration
LastEntry == mnts[mLast.entry]

\* the last iteration took an entry through the mount without an error
Processed == mLast.entry > 0 /\ mLast.passed /\ mLast.err = "nil"

\* C14 as stated: after an entry is processed without error its mountpoint exists,
\* the flags of the mount on the four axes are exactly the requested ones, and the
\* remount was made exactly when the flags seen after the mount differed from them.
C14_FlagsExactlyRequested ==
    Processed =>
        /\ mLast.exists
        /\ mLast.flags = mLast.expected
        /\ ("remount" \in Range(mLast.calls)) = (mLast.observed # mLast.expected)

\* C14 as amended: after an entry is processed without error its mountpoint exists
\* and every requested flag is set on the mount, which may carry further flags; the
\* remount was made exactly when a requested flag was missing from the flags seen
\* after the mount.
C14_RequestedFlagsSet ==
    Processed =>
        /\ mLast.exists
        /\ mLast.expected \subseteq mLast.flags
        /\ ("remount" \in Range(mLast.calls)) = ~(mLast.expected \subseteq mLast.observed)

\* a read-only bind on a mountpoint the loop created, remounted because the kernel
\* showed nosuid alone after the mount
C14_Witness ==
    /\ Processed
    /\ LastEntry.type = "bind"
    /\ LastEntry.options = <<"ro">>
    /\ mLast.observed = {"NOSUID"}
    /\ mLast.calls = <<"mkdirall", "mount", "remount">>
    /\ mLast.flags = {"NODEV", "RDONLY"}

\* the location under the root that a destination names
Targets(destination, name) ==
    LET t == Join(rootPath, destination)
    IN  Len(t) >= 2 /\ t[1] = "rootfs" /\ t[2] = name

\* C16: for an entry whose destination is /dev, /proc, /sys or a path under one of
\* them the loop creates no mountpoint and issues no mount and no remount.
C16_FixedLocationsNeverProcessed ==
    (mLast.entry > 0 /\ \E name \in {"dev", "proc", "sys"} : Targets(LastEntry.destination, name))
        => (mLast.calls = <<>> /\ ~mLast.passed)

\* the filter as the code applies it: an entry whose destination string is /dev,
\* /proc or /sys or begins with /dev/, /proc/ or /sys/ is skipped
FilterSkipsListed ==
    (mLast.entry > 0 /\ SkippedByDestination(LastEntry.destination))
        => (mLast.calls = <<>> /\ ~mLast.passed)

\* C25: whenever the loop over spec.Mounts returns from setupChrootBindMounts, for a
\* failure of any step of an iteration (the source's stat, the symlink evaluation of
\* the destination, the examination or creation of the mountpoint, the mount, the
\* statfs, the remount), the handle handed back is undoBinds, never nil.
C25_HandleOnEveryReturn == mpc = "returned" => mLast.handle = "undoBinds"

(***************************************************************************)
(* The loop over spec.Linux.ReadonlyPaths (specification SpecReadonly),    *)
(* run once and, after a run without error, a second time over the same    *)
(* paths. Between the calls of the loop nothing but the loop changes the   *)
(* paths; a call that answers ENOENT for a path that was there has found   *)
(* it removed.                                                             *)
(***************************************************************************)
\* a test that never finds a path read-only
AlreadyReadOnlyNever(fsRo) == FALSE

\* fs.Flags&unix.ST_RDONLY != 0, the check before the bind
AlreadyReadOnly(fsRo) == fsRo

\* a last check that accepts a writable path
StillWritableIgnored(fsRo) == FALSE

\* fs.Flags&unix.ST_RDONLY == 0, the check after the remount
StillWritable(fsRo) == ~fsRo

\* the loop goes on with the next path
RoContinue(how) ==
    /\ ri' = ri + 1
    /\ rLast' = how
    /\ UNCHANGED <<rpc, rErr>>

\* return undoBinds, fmt.Errorf(...)
RoReturn(e) ==
    /\ rpc' = "returned"
    /\ rErr' = e
    /\ rLast' = "error"
    /\ UNCHANGED ri

\* the path has been removed
Removed(p) == [roFs EXCEPT ![p].exists = FALSE]

\* the body of for _, roPath := range spec.Linux.ReadonlyPaths, once
ReadonlyEntry ==
    /\ rpc = "loop"
    /\ ri <= Len(roPaths)
    /\ LET p == roPaths[ri]
       IN  IF ~roFs[p].exists
           THEN \* filepath.EvalSymlinks: ErrNotExist
                /\ RoContinue("missing")
                /\ UNCHANGED <<roFs, rCalls>>
           ELSE \/ /\ RoReturn("evalsymlinks")
                   /\ UNCHANGED <<roFs, rCalls>>
                \/ \* unix.Statfs: ErrNotExist
                   /\ roFs' = Removed(p)
                   /\ RoContinue("missing")
                   /\ UNCHANGED rCalls
                \/ /\ RoReturn("statfs")
                   /\ UNCHANGED <<roFs, rCalls>>
                \/ /\ AlreadyReadOnly(roFs[p].ro)
                   /\ RoContinue("already_ro")
                   /\ UNCHANGED <<roFs, rCalls>>
                \/ /\ ~AlreadyReadOnly(roFs[p].ro)
                   /\ \/ \* unix.Mount of the path on itself: ErrNotExist
                         /\ roFs' = Removed(p)
                         /\ rCalls' = rCalls + 1
                         /\ RoContinue("missing")
                      \/ /\ rCalls' = rCalls + 1
                         /\ RoReturn("bind")
                         /\ UNCHANGED roFs
                      \/ \* the bind succeeded; the second unix.Statfs fails
                         /\ rCalls' = rCalls + 1
                         /\ RoReturn("statfs")
                         /\ UNCHANGED roFs
                      \/ \* the bind left the path read-only: no remount
                         /\ roFs' = [roFs EXCEPT ![p].ro = TRUE]
                         /\ rCalls' = rCalls + 1
                         /\ \/ RoContinue("made_ro")
                            \/ RoReturn("statfs")
                      \/ \* the bind left it writable: remount, which fails
                         /\ rCalls' = rCalls + 2
                         /\ RoReturn("remount")
                         /\ UNCHANGED roFs
                      \/ \* the remount succeeded, and the last unix.Statfs decides
                         \E nowRo \in BOOLEAN :
                           /\ roFs' = [roFs EXCEPT ![p].ro = nowRo]
                           /\ rCalls' = rCalls + 2
                           /\ \/ RoReturn("statfs")
                              \/ IF StillWritable(nowRo)
                                 THEN RoReturn("verify")
                                 ELSE RoContinue("made_ro")
    /\ UNCHANGED <<roPaths, rpass>>
    /\ UNCHANGED <<mainVars, relayVars, capVars, undoVars, rlVars, sysVars, flagVars, mountVars, maskVars>>

\* the loop has run out of paths
ReadonlyDone ==
    /\ rpc = "loop"
    /\ ri > Len(roPaths)
    /\ rpc' = "end"
    /\ UNCHANGED <<roPaths, roFs, ri, rpass, rErr, rCalls, rLast>>
    /\ UNCHANGED <<mainVars, relayVars, capVars, undoVars, rlVars, sysVars, flagVars, mountVars, maskVars>>

\* the loop is run again over the same paths after a run without error
ReadonlyAgain ==
    /\ rpc = "end"
    /\ rpass = 1
    /\ rpass' = 2
    /\ rpc' = "loop"
    /\ ri' = 1
    /\ rCalls' = 0
    /\ rLast' = "none"
    /\ UNCHANGED <<roPaths, roFs, rErr>>
    /\ UNCHANGED <<mainVars, relayVars, capVars, undoVars, rlVars, sysVars, flagVars, mountVars, maskVars>>

ReadonlyPathNames == {"/proc/sys", "/sys/fs", "/proc/bus"}

PathStates == {[exists |-> FALSE, ro |-> FALSE], [exists |-> TRUE, ro |-> FALSE],
               [exists |-> TRUE, ro |-> TRUE]}

InitReadonly ==
    /\ InitMainVars
    /\ InitCapVars
    /\ InitUndoVars
    /\ InitFlagVars
    /\ InitMountVars
    /\ InitMaskVars
    /\ InitRlVars
    /\ InitSysVars
    /\ roPaths \in SeqsUpTo(ReadonlyPathNames, MaxRoPaths)
    /\ roFs \in [ReadonlyPathNames -> PathStates]
    /\ ri = 1
    /\ rpass = 1
    /\ rpc = "loop"
    /\ rErr = "nil"
    /\ rCalls = 0
    /\ rLast = "none"

NextReadonly == ReadonlyEntry \/ ReadonlyDone \/ ReadonlyAgain

SpecReadonly == InitReadonly /\ [][NextReadonly]_vars

\* C17: in a second run of the loop after a first run without error no mount and no
\* remount is made: every path that exists is found read-only and skipped, every
\* missing path is skipped.
C17_SecondPassNoMounts ==
    rpass = 2 =>
        /\ rCalls = 0
        /\ rLast \in {"none", "missing", "already_ro", "error"}
        /\ rErr \in {"nil", "evalsymlinks", "statfs"}

\* the second run has gone over two paths, one read-only since the first run made
\* it so, one missing
C17_Witness ==
    /\ rpass = 2
    /\ rpc = "end"
    /\ Len(roPaths) = 2
    /\ roPaths[1] # roPaths[2]
    /\ roFs[roPaths[1]] = [exists |-> TRUE, ro |-> TRUE]
    /\ ~roFs[roPaths[2]].exists
    /\ rCalls = 0

VerifyFailed ==
    /\ rpc = "returned"
    /\ rErr = "verify"
    /\ ~roFs[roPaths[ri]].ro

(***************************************************************************)
(* The loop over spec.Linux.MaskedPaths (specification SpecMask).          *)
(* stat.Mode is the set of the permission bits set in it.                  *)
(***************************************************************************)
\* stat.Uid >= mapping.ContainerID && stat.Uid < mapping.ContainerID+mapping.Size,
\* for one of the mappings
InRange(id, mappings) ==
    \E i \in 1..Len(mappings) :
        id >= mappings[i].containerID /\ id < mappings[i].containerID + mappings[i].size

\* the three tests of isAccessible as the claim reads them: the read and execute
\* bits of others, of the group with the GID mappings, of the owner with the UID
\* mappings
AccessibleByBits(mode, uid, gid, mappings) ==
    \/ mode \cap {"IROTH", "IXOTH"} # {}
    \/ mode \cap {"IRGRP", "IXGRP"} # {} /\ InRange(gid, mappings.gid)
    \/ mode \cap {"IRUSR", "IXUSR"} # {} /\ InRange(uid, mappings.uid)

\* the three tests as written: stat.Mode&unix.S_IROTH|unix.S_IXOTH != 0 is
\* ((stat.Mode & S_IROTH) | S_IXOTH) != 0, & binding tighter than |; the second test
\* repeats the bits of others, the third is on (stat.Mode & S_IRUSR) | S_IXUSR
IsAccessible(mode, uid, gid, mappings) ==
    LET first == ((mode \cap {"IROTH"}) \cup {"IXOTH"}) # {}
        second == first \/ ( /\ ((mode \cap {"IROTH"}) \cup {"IXOTH"}) # {}
                             /\ Len(mappings.gid) > 0
                             /\ InRange(gid, mappings.gid) )
        third == second \/ ( /\ ((mode \cap {"IRUSR"}) \cup {"IXUSR"}) # {}
                             /\ Len(mappings.uid) > 0
                             /\ InRange(uid, mappings.uid) )
    IN  third

\* a test that masks writable directories only
MaskDirectoryWritableOnly(isReadOnly, hasContent, isAccessible) == ~isReadOnly

\* !isReadOnly || (hasContent && isAccessible)
MaskDirectory(isReadOnly, hasContent, isAccessible) ==
    ~isReadOnly \/ (hasContent /\ isAccessible)

\* isDevNull: a character device with the device number of /dev/null, when
\* syscall.Stat(os.DevNull) succeeds
IsDevNull(kind, nullStatOk) == kind = "devnull" /\ nullStatOk

\* what the system calls of one iteration may answer
MaskEnvs ==
    [failAt : {"none", "stat", "statfs", "stat_mode", "open", "readdir", "mount",
               "statfs_after", "remount"},
     open : {"ok", "eperm"},
     bindRo : BOOLEAN,
     nullStatOk : BOOLEAN]

\* one iteration of the loop on a path that exists; os.Open is refused for want of
\* permission only on a directory that others may not read
Masking(i, d, mappings, e) ==
    LET base == [NoMasking EXCEPT !.entry = i]
        isReadOnly == d.readOnly
        isAccessible == IsAccessible(d.mode, d.uid, d.gid, mappings)
        opened == e.open = "ok" \/ "IROTH" \in d.mode
        hasContent == opened /\ d.nonEmpty
        examined == [base EXCEPT !.isReadOnly = isReadOnly, !.isAccessible = isAccessible,
                                 !.hasContent = hasContent, !.opened = opened]
    IN  IF e.failAt = "stat" THEN [base EXCEPT !.err = "examine"]
        ELSE IF d.kind = "dir"
        THEN IF e.failAt = "statfs" THEN [base EXCEPT !.err = "statfs"]
             ELSE IF e.failAt = "stat_mode"
                  THEN [base EXCEPT !.isReadOnly = isReadOnly, !.err = "permissions"]
             ELSE IF e.failAt = "open" THEN [examined EXCEPT !.opened = FALSE, !.hasContent = FALSE, !.err = "open"]
             ELSE IF opened /\ e.failAt = "readdir"
                  THEN [examined EXCEPT !.hasContent = FALSE, !.err = "readdir"]
             ELSE IF ~MaskDirectory(isReadOnly, hasContent, isAccessible) THEN examined
             ELSE IF e.failAt = "mount"
                  THEN [examined EXCEPT !.calls = <<"mount_empty">>, !.err = "mount"]
             ELSE IF e.failAt = "statfs_after"
                  THEN [examined EXCEPT !.calls = <<"mount_empty">>, !.err = "statfs"]
             ELSE IF e.bindRo THEN [examined EXCEPT !.calls = <<"mount_empty">>]
             ELSE IF e.failAt = "remount"
                  THEN [examined EXCEPT !.calls = <<"mount_empty", "remount">>, !.err = "remount"]
             ELSE [examined EXCEPT !.calls = <<"mount_empty", "remount">>]
        ELSE LET checked == [base EXCEPT !.nullStat = d.kind # "file" /\ e.nullStatOk]
             IN  IF IsDevNull(d.kind, d.kind # "file" /\ e.nullStatOk) THEN checked
                 ELSE IF e.failAt = "mount"
                      THEN [checked EXCEPT !.calls = <<"mount_devnull">>, !.err = "mount"]
                 ELSE [checked EXCEPT !.calls = <<"mount_devnull">>]

\* os.Mkdir(roEmptyDir, 0700) if len(spec.Linux.MaskedPaths) > 0
MakeEmptyDir ==
    /\ kpc = "mkdir"
    /\ IF Len(maskedPaths) > 0
       THEN \/ kpc' = "loop" /\ UNCHANGED kLast
            \/ kpc' = "returned" /\ kLast' = [NoMasking EXCEPT !.err = "mkdir"]
       ELSE kpc' = "loop" /\ UNCHANGED kLast
    /\ UNCHANGED <<maskedPaths, idMappings, ki>>
    /\ UNCHANGED <<mainVars, relayVars, capVars, undoVars, rlVars, sysVars, flagVars, mountVars, roVars>>

\* the body of for _, masked := range spec.Linux.MaskedPaths, once
MaskEntry ==
    /\ kpc = "loop"
    /\ ki <= Len(maskedPaths)
    /\ LET d == maskedPaths[ki]
       IN  IF d.kind = "missing"
           THEN /\ kLast' = [NoMasking EXCEPT !.entry = ki]
                /\ ki' = ki + 1
                /\ UNCHANGED kpc
           ELSE \E e \in MaskEnvs :
                  /\ kLast' = Masking(ki, d, idMappings, e)
                  /\ IF kLast'.err = "nil"
                     THEN /\ ki' = ki + 1
                          /\ UNCHANGED kpc
                     ELSE /\ kpc' = "returned"
                          /\ UNCHANGED ki
    /\ UNCHANGED <<maskedPaths, idMappings>>
    /\ UNCHANGED <<mainVars, relayVars, capVars, undoVars, rlVars, sysVars, flagVars, mountVars, roVars>>

\* return undoBinds, nil
MaskDone ==
    /\ kpc = "loop"
    /\ ki > Len(maskedPaths)
    /\ kpc' = "end"
    /\ UNCHANGED <<maskedPaths, idMappings, ki, kLast>>
    /\ UNCHANGED <<mainVars, relayVars, capVars, undoVars, rlVars, sysVars, flagVars, mountVars, roVars>>

\* permission bits of a masked directory: none, the owner's, the group's, the others'
Modes == {{}, {"IRUSR", "IXUSR"}, {"IRGRP", "IXGRP"}, {"IROTH", "IXOTH"}}

\* what a masked path may be: missing, a directory, a regular file, the null device,
\* another character device
MaskedTargets ==
    {[kind |-> k, readOnly |-> FALSE, nonEmpty |-> FALSE, mode |-> {}, uid |-> 0, gid |-> 0] :
        k \in {"missing", "file", "devnull", "chardev"}}
    \cup [kind : {"dir"}, readOnly : BOOLEAN, nonEmpty : BOOLEAN, mode : Modes,
          uid : {0, 5000}, gid : {0, 5000}]

MappingLists == {<<>>, <<[containerID |-> 0, size |-> 1000]>>}

InitMask ==
    /\ InitMainVars
    /\ InitCapVars
    /\ InitUndoVars
    /\ InitFlagVars
    /\ InitMountVars
    /\ InitRoVars
    /\ InitRlVars
    /\ InitSysVars
    /\ maskedPaths \in SeqsUpTo(MaskedTargets, MaxMasked)
    /\ idMappings \in [uid : MappingLists, gid : MappingLists]
    /\ ki = 1
    /\ kpc = "mkdir"
    /\ kLast = NoMasking

NextMask == MakeEmptyDir \/ MaskEntry \/ MaskDone

SpecMask == InitMask /\ [][NextMask]_vars

\* the path of the last iteration
LastMasked == maskedPaths[kLast.entry]

Masked == kLast.entry > 0

\* accessible as the claims define it
LastAccessibleByBits ==
    AccessibleByBits(LastMasked.mode, LastMasked.uid, LastMasked.gid, idMappings)

\* C19 as stated: a missing path, a read-only empty directory and the null device
\* get no mount; a directory that is writable, or non-empty and accessible, gets the
\* empty directory mounted on it read-only; any other file gets the null device.
C19_DecisionTable ==
    Masked =>
        LET d == LastMasked
        IN  /\ d.kind = "missing" => (kLast.calls = <<>> /\ kLast.err = "nil")
            /\ (d.kind = "dir" /\ d.readOnly /\ ~d.nonEmpty) => kLast.calls = <<>>
            /\ (d.kind = "dir" /\ kLast.err = "nil"
                    /\ (~d.readOnly \/ (d.nonEmpty /\ LastAccessibleByBits)))
                 => kLast.calls \in {<<"mount_empty">>, <<"mount_empty", "remount">>}
            /\ d.kind = "devnull" => kLast.calls = <<>>
            /\ (d.kind \in {"file", "chardev"} /\ kLast.err = "nil")
                 => kLast.calls = <<"mount_devnull">>

\* C19 as amended: non-empty means that the bootstrap could list the directory and
\* found an entry - a read-only directory it is not permitted to open gets no mount -
\* and the null device is recognised only when /dev/null itself can be examined.
C19_DecisionTableAsListed ==
    Masked =>
        LET d == LastMasked
        IN  /\ d.kind = "missing" => (kLast.calls = <<>> /\ kLast.err = "nil")
            /\ (d.kind = "dir" /\ d.readOnly /\ (~d.nonEmpty \/ ~kLast.opened))
                 => kLast.calls = <<>>
            /\ (d.kind = "dir" /\ kLast.err = "nil"
                    /\ (~d.readOnly \/ (d.nonEmpty /\ kLast.opened /\ LastAccessibleByBits)))
                 => kLast.calls \in {<<"mount_empty">>, <<"mount_empty", "remount">>}
            /\ (d.kind = "devnull" /\ kLast.nullStat) => kLast.calls = <<>>
            /\ ((d.kind \in {"file", "chardev"} \/ (d.kind = "devnull" /\ ~kLast.nullStat))
                    /\ kLast.err = "nil")
                 => kLast.calls = <<"mount_devnull">>

\* a read-only directory with content, readable by others, masked by the empty
\* directory and remounted
C19_Witness ==
    /\ Masked
    /\ kpc = "end"
    /\ LastMasked.kind = "dir"
    /\ LastMasked.readOnly
    /\ LastMasked.nonEmpty
    /\ LastMasked.mode = {"IROTH", "IXOTH"}
    /\ kLast.hasContent
    /\ kLast.calls = <<"mount_empty", "remount">>

\* C20: isAccessible is what the permission bits and the mappings make it, and a
\* directory that is read-only, has content and is not accessible gets no mount.
C20_InaccessibleUntouched ==
    (Masked /\ LastMasked.kind = "dir" /\ kLast.err = "nil") =>
        /\ kLast.isAccessible = LastAccessibleByBits
        /\ (LastMasked.readOnly /\ kLast.hasContent /\ ~LastAccessibleByBits)
             => kLast.calls = <<>>

(***************************************************************************)
(* SpecRlimits: setRlimits on its own.  spec.Process is present, as the    *)
(* main sequence has checked before it calls setRlimits.                   *)
(***************************************************************************)
\* the lookup table, of which the model keeps RLIMIT_CPU (0) and RLIMIT_NOFILE (7)
rlimitsMap == ("RLIMIT_CPU" :> 0) @@ ("RLIMIT_NOFILE" :> 7)

\* strings.ToUpper, on the type names of the model
ToUpper(s) ==
    CASE s = "rlimit_nofile" -> "RLIMIT_NOFILE"
      [] s = "rlimit_bogus" -> "RLIMIT_BOGUS"
      [] OTHER -> s

\* the loop of parseRlimits over the entries left, parsed being the map so far
RECURSIVE ParseInto(_, _)
ParseInto(parsed, entries) ==
    IF entries = <<>>
    THEN [err |-> "nil", limits |-> parsed]
    ELSE LET limit == Head(entries)
             recognized == ToUpper(limit.Type) \in DOMAIN rlimitsMap
         IN  IF ~recognized
             THEN [err |-> "parse", limits |-> <<>>]
             ELSE LET resource == rlimitsMap[ToUpper(limit.Type)]
                  IN  ParseInto([r \in DOMAIN parsed \cup {resource} |->
                                    IF r = resource
                                    THEN [Cur |-> limit.Soft, Max |-> limit.Hard]
                                    ELSE parsed[r]],
                                Tail(entries))

\* a parse that passes over the entries whose type it does not know
ParseRlimitsKnownOnly(entries) ==
    ParseInto(<<>>, SelectSeq(entries, LAMBDA e : ToUpper(e.Type) \in DOMAIN rlimitsMap))

\* parseRlimits: [err, limits]
ParseRlimits(entries) == ParseInto(<<>>, entries)

\* no resource is ever passed over
SkippedNoLimit(desired, current, onlyLower, onlyRaise) == FALSE

\* the two continue statements of the loop of setRlimits
Skipped(desired, current, onlyLower, onlyRaise) ==
    \/ desired.Max > current.Max /\ onlyLower
    \/ desired.Max < current.Max /\ onlyRaise

\* limits, err := parseRlimits(spec), and the return of its error
RlParse ==
    /\ rlPc = "call"
    /\ LET r == ParseRlimits(rlIn)
       IN  IF r.err # "nil"
           THEN /\ rlPc' = "error"
                /\ rlErr' = r.err
                /\ UNCHANGED <<rlLimits, rlTodo>>
           ELSE /\ rlPc' = "loop"
                /\ rlLimits' = r.limits
                /\ rlTodo' = DOMAIN r.limits
                /\ UNCHANGED rlErr
    /\ UNCHANGED <<rlIn, rlFlags, rlCur0, rlCur, rlCalls>>
    /\ UNCHANGED <<mainVars, relayVars, capVars, undoVars, sysVars, flagVars, mountVars, roVars, maskVars>>

\* one iteration of the range over limits, which takes the resources in any order;
\* fails is the system call that fails in it, if any
RlIteration ==
    /\ rlPc = "loop"
    /\ \E resource \in rlTodo, fails \in {"none", "getrlimit", "setrlimit"} :
         LET desired == rlLimits[resource]
             current == rlCur[resource]
         IN  /\ rlTodo' = rlTodo \ {resource}
             /\ IF fails = "getrlimit"
                THEN /\ rlPc' = "error"
                     /\ rlErr' = "getrlimit"
                     /\ UNCHANGED <<rlCur, rlCalls>>
                ELSE IF Skipped(desired, current, rlFlags.onlyLower, rlFlags.onlyRaise)
                THEN UNCHANGED <<rlPc, rlErr, rlCur, rlCalls>>
                ELSE /\ rlCalls' = rlCalls \cup {[resource |-> resource, Cur |-> desired.Cur, Max |-> desired.Max]}
                     /\ IF fails = "setrlimit"
                        THEN /\ rlPc' = "error"
                             /\ rlErr' = "setrlimit"
                             /\ UNCHANGED rlCur
                        ELSE /\ rlCur' = [rlCur EXCEPT ![resource] = desired]
                             /\ UNCHANGED <<rlPc, rlErr>>
    /\ UNCHANGED <<rlIn, rlFlags, rlCur0, rlLimits>>
    /\ UNCHANGED <<mainVars, relayVars, capVars, undoVars, sysVars, flagVars, mountVars, roVars, maskVars>>

\* the range has visited every resource: return nil
RlReturn ==
    /\ rlPc = "loop"
    /\ rlTodo = {}
    /\ rlPc' = "done"
    /\ UNCHANGED <<rlIn, rlFlags, rlCur0, rlCur, rlErr, rlLimits, rlTodo, rlCalls>>
    /\ UNCHANGED <<mainVars, relayVars, capVars, undoVars, sysVars, flagVars, mountVars, roVars, maskVars>>

RlimitTypes == {"RLIMIT_NOFILE", "rlimit_nofile", "RLIMIT_CPU", "RLIMIT_BOGUS"}
RlimitEntries == [Type : RlimitTypes, Soft : {1, 2}, Hard : {1, 2, 3}]
RlimitLists == UNION {[1..n -> RlimitEntries] : n \in 0..MaxRlimits}

InitRlimits ==
    /\ rlIn \in RlimitLists
    /\ rlFlags \in [onlyLower : BOOLEAN, onlyRaise : BOOLEAN]
    /\ rlCur0 = [r \in {0, 7} |-> [Cur |-> 2, Max |-> 2]]
    /\ rlCur = rlCur0
    /\ rlPc = "call"
    /\ rlErr = "nil"
    /\ rlLimits = <<>>
    /\ rlTodo = {}
    /\ rlCalls = {}
    /\ InitMainVars
    /\ InitCapVars
    /\ InitUndoVars
    /\ InitFlagVars
    /\ InitMountVars
    /\ InitRoVars
    /\ InitMaskVars
    /\ InitSysVars

NextRlimits == RlParse \/ RlIteration \/ RlReturn

SpecRlimits == InitRlimits /\ [][NextRlimits]_vars

\* the resources the entries of rlIn configure
Configured ==
    {rlimitsMap[ToUpper(rlIn[i].Type)] :
        i \in {j \in 1..Len(rlIn) : ToUpper(rlIn[j].Type) \in DOMAIN rlimitsMap}}

\* the last entry of rlIn that names resource r
RequestedFor(r) ==
    rlIn[CHOOSE i \in 1..Len(rlIn) :
            /\ ToUpper(rlIn[i].Type) \in DOMAIN rlimitsMap
            /\ rlimitsMap[ToUpper(rlIn[i].Type)] = r
            /\ \A j \in (i + 1)..Len(rlIn) :
                 ToUpper(rlIn[j].Type) \in DOMAIN rlimitsMap => rlimitsMap[ToUpper(rlIn[j].Type)] # r]

\* the requested hard limit of r is on the side of the current one that the flags exclude
Gated(r) ==
    \/ rlFlags.onlyLower /\ RequestedFor(r).Hard > rlCur0[r].Max
    \/ rlFlags.onlyRaise /\ RequestedFor(r).Hard < rlCur0[r].Max

\* C22: a Setrlimit call is only ever made for a configured resource that the flags
\* do not exclude (onlyLower with a requested hard limit above the current one,
\* onlyRaise with one below it), and with exactly the requested (soft, hard); when
\* setRlimits returns nil, every excluded resource has kept its limits and every
\* other configured resource has had its call and now has the requested limits, so
\* that with both flags false every configured resource has been applied.
C22_Gating ==
    /\ \A c \in rlCalls :
         /\ c.resource \in Configured
         /\ ~Gated(c.resource)
         /\ c.Cur = RequestedFor(c.resource).Soft
         /\ c.Max = RequestedFor(c.resource).Hard
    /\ rlPc = "done" =>
         /\ \A r \in Configured :
              IF Gated(r)
              THEN /\ \A c \in rlCalls : c.resource # r
                   /\ rlCur[r] = rlCur0[r]
              ELSE /\ \E c \in rlCalls : c.resource = r
                   /\ rlCur[r] = [Cur |-> RequestedFor(r).Soft, Max |-> RequestedFor(r).Hard]
         /\ (~rlFlags.onlyLower /\ ~rlFlags.onlyRaise) => {c.resource : c \in rlCalls} = Configured
C22_Witness ==
    /\ rlPc = "done"
    /\ rlFlags = [onlyLower |-> TRUE, onlyRaise |-> FALSE]
    /\ rlIn = <<[Type |-> "RLIMIT_NOFILE", Soft |-> 1, Hard |-> 3], [Type |-> "RLIMIT_CPU", Soft |-> 1, Hard |-> 1]>>
    /\ rlCalls = {[resource |-> 0, Cur |-> 1, Max |-> 1]}

\* some entry of rlIn has a type name that is not in the lookup table
AnyUnrecognized == \E i \in 1..Len(rlIn) : ToUpper(rlIn[i].Type) \notin DOMAIN rlimitsMap

\* C27: when some entry has a type name that is not in the lookup table, setRlimits
\* returns the parse error and has made no Setrlimit call and changed no limit, also
\* for the recognized entries listed before the bad one; and when several entries
\* name one resource, the only call for it carries the last entry's (soft, hard).
C27_ParseBeforeMutation ==
    /\ (AnyUnrecognized /\ rlPc # "call") =>
         /\ rlPc = "error"
         /\ rlErr = "parse"
         /\ rlCalls = {}
         /\ rlCur = rlCur0
    /\ \A c, d \in rlCalls :
         /\ c.resource = d.resource => c = d
         /\ c.Cur = RequestedFor(c.resource).Soft
         /\ c.Max = RequestedFor(c.resource).Hard
C27_Witness ==
    /\ rlPc = "error"
    /\ rlErr = "parse"
    /\ rlIn = <<[Type |-> "RLIMIT_NOFILE", Soft |-> 1, Hard |-> 2], [Type |-> "RLIMIT_BOGUS", Soft |-> 1, Hard |-> 2]>>
    /\ rlCalls = {}
    /\ rlCur = rlCur0

(***************************************************************************)
(* SpecSys: the loop of setupChrootBindMounts over the host's mounts, which *)
(* binds those at /sys and under it below the root, after /sys itself.     *)
(***************************************************************************)
\* !strings.HasPrefix(m.Mountpoint, "/sys/") && m.Mountpoint != "/sys"
NotUnderSys(mountpoint) ==
    ~HasPrefix(mountpoint, <<"/", "sys", "/">>) /\ mountpoint # <<"/", "sys">>

\* what one iteration meets: the call that fails in it, if any, and whether statfs
\* reports the new mount as read-only
SysEnvs == [failAt : {"none", "bind", "statfs", "remount"}, rdonly : BOOLEAN]

\* makeReadOnly(subSys, sysFlags): the calls it makes and the error it returns
makeReadOnly(e) ==
    IF e.failAt = "statfs" THEN [calls |-> <<"statfs">>, err |-> "statfs"]
    ELSE IF e.rdonly THEN [calls |-> <<"statfs">>, err |-> "nil"]
    ELSE IF e.failAt = "remount" THEN [calls |-> <<"statfs", "remount">>, err |-> "remount"]
    ELSE [calls |-> <<"statfs", "remount">>, err |-> "nil"]

\* the body of for _, m := range mnts, once
SysEntry ==
    /\ spc = "loop"
    /\ si <= Len(sysMnts)
    /\ IF NotUnderSys(sysMnts[si])
       THEN /\ sLast' = [entry |-> si, outcome |-> "filtered", calls |-> <<>>]
            /\ si' = si + 1
            /\ UNCHANGED <<spc, sRet>>
       ELSE \E e \in SysEnvs :
              IF e.failAt = "bind"
              THEN /\ sLast' = [entry |-> si, outcome |-> "bind_skipped", calls |-> <<"mount">>]
                   /\ si' = si + 1
                   /\ UNCHANGED <<spc, sRet>>
              ELSE LET r == makeReadOnly(e)
                   IN  /\ sLast' = [entry |-> si, outcome |-> "bound", calls |-> <<"mount">> \o r.calls]
                       /\ IF r.err # "nil"
                          THEN /\ spc' = "returned"
                               /\ sRet' = [handle |-> "undoBinds", err |-> r.err]
                               /\ UNCHANGED si
                          ELSE /\ si' = si + 1
                               /\ UNCHANGED <<spc, sRet>>
    /\ UNCHANGED sysMnts
    /\ UNCHANGED <<mainVars, relayVars, capVars, undoVars, rlVars, flagVars, mountVars, roVars, maskVars>>

\* the loop has run out of mounts: setupChrootBindMounts goes on to spec.Mounts
SysDone ==
    /\ spc = "loop"
    /\ si > Len(sysMnts)
    /\ spc' = "end"
    /\ UNCHANGED <<sysMnts, si, sRet, sLast>>
    /\ UNCHANGED <<mainVars, relayVars, capVars, undoVars, rlVars, flagVars, mountVars, roVars, maskVars>>

\* mountpoints of the host: /sys, one under it, and two that are not
HostMountpoints ==
    {<<"/", "sys">>, <<"/", "sys", "/", "fs", "/", "cgroup">>, <<"/", "system">>, <<"/", "proc">>}

InitSys ==
    /\ sysMnts \in SeqsUpTo(HostMountpoints, MaxSysMounts)
    /\ si = 1
    /\ spc = "loop"
    /\ sRet = NoReturn
    /\ sLast = NoSysIteration
    /\ InitMainVars
    /\ InitCapVars
    /\ InitUndoVars
    /\ InitFlagVars
    /\ InitMountVars
    /\ InitRoVars
    /\ InitMaskVars
    /\ InitRlVars

NextSys == SysEntry \/ SysDone

SpecSys == InitSys /\ [][NextSys]_vars

\* a bind mount that fails is passed over and the loop goes on
SysBindFailureSkipped ==
    sLast.outcome = "bind_skipped" => (spc # "returned" /\ si = sLast.entry + 1 /\ sRet = NoReturn)

\* C24: no failure on a host mount at /sys or under it, of its bind mount or of its
\* read-only remount, makes setupChrootBindMounts return: the loop over the host's
\* mounts never returns from inside and always runs to its end.
C24_SubordinateNeverFatal == spc # "returned" /\ sRet.err = "nil"

====
